---- MODULE Spec2Model ----
(***************************************************************************)
(* Fall detector: the event state machine (outputs/event_logger.py), the   *)
(* JSON history it appends to, and the Firestore synchronisation of that   *)
(* history (outputs/firebase_connector.py, main.py).                       *)
(*                                                                         *)
(* Time is counted in tenths of a second (UTC).  A Python Optional value   *)
(* is a sequence: None is <<>> and a present value v is <<v>>.  A dict is  *)
(* a record; an ISO-8601 string is a record [local, tz] and any other      *)
(* string a record [text].                                                 *)
(***************************************************************************)
EXTENDS Integers, Sequences, FiniteSets, TLC

(* ------------------------------ bounds --------------------------------- *)

\* Horizon of the wall clock of the state-machine specification.
MaxTime == 36

\* Largest frame index the producer passes to update.
MaxFrame == 4

\* Largest number of entries the producers append to the history file.
MaxLog == 2

\* Largest number of entries of a history file given as input.
MaxHistory == 3

\* Largest number of documents the remote collection accepts.
MaxRemote == 3

\* Number of event-triggered sync threads the producer starts.
MaxTriggers == 2

\* Number of threads that call log_event.
MaxAppenders == 2

\* Largest number of log_event calls the threads make in all.
MaxCalls == 3

\* Largest number of update calls the threads make in all.
MaxUpdates == 3

(* ------------------------- program constants --------------------------- *)

\* config.MIN_FALL_DURATION_SEC, 0.5 s.
MIN_FALL_DURATION_SEC == 5

\* config.EVENT_DEDUP_WINDOW_SEC, 2.0 s.
EVENT_DEDUP_WINDOW_SEC == 20

\* FirebaseConnector(max_retries=3).
max_retries == 3

\* FirebaseConnector(retry_backoff=1.0), 1.0 s.
retry_backoff == 10

(* ------------------------------ values --------------------------------- *)

None == <<>>

Some(v) == <<v>>

Val(o) == o[1]

\* dict.get(key): the value, or None when the key is absent.
Get(d, key) == IF key \in DOMAIN d THEN Some(d[key]) ELSE None

\* datetime.isoformat() of an aware UTC datetime: "....+00:00".
IsoFormat(dt) == [local |-> dt, tz |-> "+00:00"]

\* The offset from UTC of an ISO string's zone suffix, in tenths of a second
\* ("" is a naive value, which _parse_iso takes as UTC).
UtcOffset(tz) == IF tz = "+01:00" THEN 36000 ELSE 0

\* FirebaseConnector._parse_iso: fromisoformat; a naive value is taken as
\* UTC, an aware one converted to UTC; None when the string does not parse.
_parse_iso(ts) ==
    IF "local" \in DOMAIN ts /\ "tz" \in DOMAIN ts
    THEN Some(ts.local - UtcOffset(ts.tz))
    ELSE None

\* No event is being delivered.
NoSinks == [stored |-> FALSE, pending |-> <<>>, errors |-> {}]

VARIABLES
    \* the wall clock, datetime.now(timezone.utc)
    now,
    \* EventLogger instance
    state, fall_start_time, fall_start_frame, fall_photo_path, fall_metadata,
    \* the producer loop: last frame index passed, last value update/finalize
    \* returned, and the event returned before that one
    frame_idx, completed_event, previous_event,
    \* the signals the producer has passed to update: the start of the run
    \* of is_falling in progress, the runs that have ended (start and end
    \* instants), and the number of events update has returned
    run_start, runs, emitted,
    \* the threads calling update and finalize on the EventLogger: position,
    \* the call and its arguments, the locals now and completed_event (event
    \* in finalize), and the NORMAL -> FALLING transitions made so far
    call_pc, call_op, call_now, call_event, transitions,
    \* where main is: "loop", "finally" or "exited"
    main_pc,
    \* the deliveries of the completed event to the sinks: whether the
    \* event was stored, the sinks still to call, the sinks that raised
    sinks,
    \* config.USE_EVENT_LOGGER: which logger writes the history file
    USE_EVENT_LOGGER,
    \* the history file (json_log_path) and the cursor file (state_path)
    logFile, stateFile,
    \* what the history file holds: "absent", "list" (the JSON list logFile),
    \* "not-a-list" (other JSON), "garbage" (no JSON) or "partial" (a JSON
    \* text cut short); and the quarantine files beside it
    logKind, quarantine,
    \* the threads calling log_event on a logger: the logger instance of
    \* each, its position, the event it appends, the history it read, its
    \* temporary file and the value its last call returned
    instance, log_pc, event, log_history, tmpFile, log_ret,
    \* for each of these threads, what the file held when its call began and
    \* whether a step of the call has failed
    before, failed,
    \* the lock of each logger instance (the set of holders), the number of
    \* log_event calls begun, the events of the calls that returned True,
    \* and the last value a reader of the history returned
    loggerLock, calls, appended, lastRead,
    \* the Firestore collection: the documents added, in order
    remote,
    \* FirebaseConnector instance: client and _lock (the set of holders)
    client, _lock,
    \* the threads calling sync_new_events: position and locals; results is
    \* the outcome of each candidate of the pass so far: "failed" when
    \* _upload_event returned False, "uploaded" when it returned True,
    \* "saved" once _write_state has stored its timestamp
    pc, history, last_dt, candidates, idx, attempt, uploaded, results,
    \* the waits (time.sleep) of each thread's last call of _upload_event
    slept

esmVars == <<state, fall_start_time, fall_start_frame, fall_photo_path,
             fall_metadata, frame_idx, completed_event, previous_event>>

obsVars == <<run_start, runs, emitted>>

callVars == <<call_pc, call_op, call_now, call_event, transitions, main_pc,
              sinks>>

diskVars == <<logKind, quarantine>>

appVars == <<instance, log_pc, event, log_history, tmpFile, log_ret, before,
             failed, loggerLock, calls, appended, lastRead>>

fileVars == <<USE_EVENT_LOGGER, logFile, stateFile, remote>>

connVars == <<client, _lock>>

passVars == <<pc, history, last_dt, candidates, idx, attempt, uploaded,
              results, slept>>

vars == <<now, esmVars, obsVars, callVars, diskVars, appVars, fileVars,
          connVars, passVars>>

(* ----------------------- EventLogger (state machine) ------------------- *)

\* The same dict with the end of the fall taken for its start.
UpdateEventEndsAtStart(start_time, start_frame, photo, metadata, end_time, frame) ==
    [event_type       |-> "fall",
     start_time       |-> IsoFormat(Val(start_time)),
     end_time         |-> IsoFormat(Val(start_time)),
     duration_seconds |-> 0,
     start_frame      |-> start_frame,
     end_frame        |-> Some(frame - 1),
     total_frames     |-> Some(frame - Val(start_frame)),
     photo_start      |-> photo,
     metadata         |-> metadata]

\* The same dict with the duration counted from the epoch.
UpdateEventDurationFromEpoch(start_time, start_frame, photo, metadata, end_time, frame) ==
    [event_type       |-> "fall",
     start_time       |-> IsoFormat(Val(start_time)),
     end_time         |-> IsoFormat(end_time),
     duration_seconds |-> end_time,
     start_frame      |-> start_frame,
     end_frame        |-> Some(frame - 1),
     total_frames     |-> Some(frame - Val(start_frame)),
     photo_start      |-> photo,
     metadata         |-> metadata]

\* The dict update builds on the FALLING -> NORMAL transition.
UpdateEvent(start_time, start_frame, photo, metadata, end_time, frame) ==
    [event_type       |-> "fall",
     start_time       |-> IsoFormat(Val(start_time)),
     end_time         |-> IsoFormat(end_time),
     duration_seconds |-> end_time - Val(start_time),
     start_frame      |-> start_frame,
     end_frame        |-> Some(frame - 1),
     total_frames     |-> Some(frame - Val(start_frame)),
     photo_start      |-> photo,
     metadata         |-> metadata]

\* The dict of finalize without its mark.
FinalizeEventUnmarked(start_time, start_frame, photo, metadata, end_time) ==
    [event_type       |-> "fall",
     start_time       |-> IsoFormat(Val(start_time)),
     end_time         |-> IsoFormat(end_time),
     duration_seconds |-> end_time - Val(start_time),
     start_frame      |-> start_frame,
     end_frame        |-> None,
     total_frames     |-> None,
     photo_start      |-> photo,
     metadata         |-> metadata]

\* The dict finalize builds.
FinalizeEvent(start_time, start_frame, photo, metadata, end_time) ==
    [event_type       |-> "fall",
     start_time       |-> IsoFormat(Val(start_time)),
     end_time         |-> IsoFormat(end_time),
     duration_seconds |-> end_time - Val(start_time),
     start_frame      |-> start_frame,
     end_frame        |-> None,
     total_frames     |-> None,
     photo_start      |-> photo,
     metadata         |-> metadata,
     finalized_forced |-> TRUE]

\* What the producer does with a returned value: it keeps the last event
\* returned and the one before it.
Returned(ev) ==
    /\ completed_event' = ev
    /\ previous_event' = IF completed_event # None THEN completed_event
                         ELSE previous_event

\* The metadata argument of update: absent, or the producer's map.
MetadataArgs(frame) == {None, Some({<<"frame_idx", frame>>})}

\* Python's "metadata or {}": the map, or the empty map for None.
OrEmpty(metadata) == IF metadata = None THEN {} ELSE Val(metadata)

\* The amounts of time that pass between two calls of the producer.
TickSteps == {4, 6, 10}

\* Time passes.
Tick ==
    /\ \E d \in TickSteps : now + d <= MaxTime /\ now' = now + d
    /\ UNCHANGED <<esmVars, obsVars, callVars, diskVars, appVars, fileVars, connVars,
                   passVars>>

\* What a call of update adds to the record of the signals: a run of
\* is_falling starts at the first true and ends at the next false; the
\* call is counted when it returns an event.
Observe(is_falling) ==
    /\ run_start' = IF ~is_falling THEN None
                    ELSE IF run_start = None THEN Some(now) ELSE run_start
    /\ runs' = IF ~is_falling /\ run_start # None
               THEN Append(runs, [start |-> Val(run_start), end |-> now])
               ELSE runs
    /\ emitted' = IF completed_event' # None THEN emitted + 1 ELSE emitted

\* update taking every true signal for the start of the fall.
UpdateRestartsOnTrue(is_falling, frame, photo_path, metadata) ==
    /\ frame_idx' = frame
    /\ IF is_falling
       THEN /\ state' = "FALLING"
            /\ fall_start_time' = Some(now)
            /\ fall_start_frame' = Some(frame)
            /\ fall_photo_path' = photo_path
            /\ fall_metadata' = Some(OrEmpty(metadata))
            /\ Returned(None)
       ELSE IF state = "FALLING"
       THEN /\ IF fall_start_time # None
               THEN Returned(Some(UpdateEvent(fall_start_time, fall_start_frame,
                                     fall_photo_path, fall_metadata, now, frame)))
               ELSE Returned(None)
            /\ state' = "NORMAL"
            /\ fall_start_time' = None
            /\ UNCHANGED <<fall_start_frame, fall_photo_path, fall_metadata>>
       ELSE /\ Returned(None)
            /\ UNCHANGED <<state, fall_start_time, fall_start_frame,
                           fall_photo_path, fall_metadata>>
    /\ UNCHANGED <<now, diskVars, appVars, fileVars, connVars, passVars>>

\* update making its transitions and returning None every time.
UpdateReturnsNone(is_falling, frame, photo_path, metadata) ==
    /\ frame_idx' = frame
    /\ Returned(None)
    /\ IF is_falling /\ state = "NORMAL"
       THEN /\ state' = "FALLING"
            /\ fall_start_time' = Some(now)
            /\ fall_start_frame' = Some(frame)
            /\ fall_photo_path' = photo_path
            /\ fall_metadata' = Some(OrEmpty(metadata))
       ELSE IF ~is_falling /\ state = "FALLING"
       THEN /\ state' = "NORMAL"
            /\ fall_start_time' = None
            /\ UNCHANGED <<fall_start_frame, fall_photo_path, fall_metadata>>
       ELSE UNCHANGED <<state, fall_start_time, fall_start_frame,
                        fall_photo_path, fall_metadata>>
    /\ UNCHANGED <<now, diskVars, appVars, fileVars, connVars, passVars>>

\* update keeping the start frame and the metadata of an earlier fall.
UpdateKeepsEarlierStart(is_falling, frame, photo_path, metadata) ==
    /\ frame_idx' = frame
    /\ IF is_falling /\ state = "NORMAL"
       THEN /\ state' = "FALLING"
            /\ fall_start_time' = Some(now)
            /\ fall_start_frame' = IF fall_start_frame = None THEN Some(frame)
                                   ELSE fall_start_frame
            /\ fall_photo_path' = photo_path
            /\ fall_metadata' = IF fall_metadata = None
                                THEN Some(OrEmpty(metadata))
                                ELSE fall_metadata
            /\ Returned(None)
       ELSE IF ~is_falling /\ state = "FALLING"
       THEN /\ IF fall_start_time # None
               THEN Returned(Some(UpdateEvent(fall_start_time, fall_start_frame,
                                     fall_photo_path, fall_metadata, now, frame)))
               ELSE Returned(None)
            /\ state' = "NORMAL"
            /\ fall_start_time' = None
            /\ UNCHANGED <<fall_start_frame, fall_photo_path, fall_metadata>>
       ELSE /\ Returned(None)
            /\ UNCHANGED <<state, fall_start_time, fall_start_frame,
                           fall_photo_path, fall_metadata>>
    /\ UNCHANGED <<now, diskVars, appVars, fileVars, connVars, passVars>>

\* update entering FALLING with no start time recorded.
UpdateForgetsStartTime(is_falling, frame, photo_path, metadata) ==
    /\ frame_idx' = frame
    /\ IF is_falling /\ state = "NORMAL"
       THEN /\ state' = "FALLING"
            /\ fall_start_frame' = Some(frame)
            /\ fall_photo_path' = photo_path
            /\ fall_metadata' = Some(OrEmpty(metadata))
            /\ Returned(None)
            /\ UNCHANGED fall_start_time
       ELSE IF ~is_falling /\ state = "FALLING"
       THEN /\ IF fall_start_time # None
               THEN Returned(Some(UpdateEvent(fall_start_time, fall_start_frame,
                                     fall_photo_path, fall_metadata, now, frame)))
               ELSE Returned(None)
            /\ state' = "NORMAL"
            /\ fall_start_time' = None
            /\ UNCHANGED <<fall_start_frame, fall_photo_path, fall_metadata>>
       ELSE /\ Returned(None)
            /\ UNCHANGED <<state, fall_start_time, fall_start_frame,
                           fall_photo_path, fall_metadata>>
    /\ UNCHANGED <<now, diskVars, appVars, fileVars, connVars, passVars>>

\* EventLogger.update(is_falling, frame_idx, photo_path, metadata).
Update(is_falling, frame, photo_path, metadata) ==
    /\ frame_idx' = frame
    /\ IF is_falling /\ state = "NORMAL"
       THEN /\ state' = "FALLING"
            /\ fall_start_time' = Some(now)
            /\ fall_start_frame' = Some(frame)
            /\ fall_photo_path' = photo_path
            /\ fall_metadata' = Some(OrEmpty(metadata))
            /\ Returned(None)
       ELSE IF ~is_falling /\ state = "FALLING"
       THEN /\ IF fall_start_time # None
               THEN Returned(Some(UpdateEvent(fall_start_time, fall_start_frame,
                                     fall_photo_path, fall_metadata, now, frame)))
               ELSE Returned(None)
            /\ state' = "NORMAL"
            /\ fall_start_time' = None
            /\ UNCHANGED <<fall_start_frame, fall_photo_path, fall_metadata>>
       ELSE /\ Returned(None)
            /\ UNCHANGED <<state, fall_start_time, fall_start_frame,
                           fall_photo_path, fall_metadata>>
    /\ UNCHANGED <<now, diskVars, appVars, fileVars, connVars, passVars>>

\* finalize building its event with the state and the start left as they
\* are.
FinalizeWithoutReset ==
    /\ IF state = "FALLING" /\ fall_start_time # None
       THEN Returned(Some(FinalizeEvent(fall_start_time, fall_start_frame,
                              fall_photo_path, fall_metadata, now)))
       ELSE Returned(None)
    /\ UNCHANGED <<state, fall_start_time, fall_start_frame, fall_photo_path,
                   fall_metadata>>
    /\ UNCHANGED <<now, frame_idx, obsVars, diskVars, appVars, fileVars,
                   connVars, passVars>>

\* EventLogger.finalize().
Finalize ==
    /\ IF state # "FALLING"
       THEN /\ Returned(None)
            /\ UNCHANGED <<state, fall_start_time, fall_start_frame,
                           fall_photo_path, fall_metadata>>
       ELSE IF fall_start_time = None
       THEN /\ state' = "NORMAL"
            /\ Returned(None)
            /\ UNCHANGED <<fall_start_time, fall_start_frame,
                           fall_photo_path, fall_metadata>>
       ELSE /\ Returned(Some(FinalizeEvent(fall_start_time, fall_start_frame,
                                 fall_photo_path, fall_metadata, now)))
            /\ state' = "NORMAL"
            /\ fall_start_time' = None
            /\ fall_start_frame' = None
            /\ fall_photo_path' = None
            /\ fall_metadata' = None
    /\ UNCHANGED <<now, frame_idx, obsVars, diskVars, appVars, fileVars,
                   connVars, passVars>>

(* ------------------------------ threads -------------------------------- *)

\* Thread 0 is the periodic worker, the others are event-triggered threads.
Threads == 0 .. MaxTriggers

(* ------------------------- the history file ---------------------------- *)

\* The threads that call log_event, and the logger instances opened on the
\* history file: two EventLogger and one JSONLogger.
Appenders == 1 .. MaxAppenders

Instances == {"event_logger", "event_logger_2", "json_logger"}

Class(i) == IF i = "json_logger" THEN "JSONLogger" ELSE "EventLogger"

\* The classes that read the history file.
Readers == {"EventLogger", "JSONLogger", "FirebaseConnector"}

\* _backup_corrupt_file: the name <name>.corrupt.<reason>.<UTC time to the
\* second> the file is moved to.
BackupName(reason) == [reason |-> reason, ts |-> now \div 10]

\* _backup_corrupt_file(reason): os.replace moves the file aside; when it
\* raises, the exception is swallowed and the file stays.
_backup_corrupt_file(reason) ==
    \/ /\ logKind' = "absent"
       /\ quarantine' = quarantine \cup {BackupName(reason)}
    \/ UNCHANGED <<logKind, quarantine>>

\* _read_history (EventLogger, JSONLogger, FirebaseConnector): the list in
\* the file, [] when the file is absent or holds no JSON list.
_read_history == IF logKind = "list" THEN logFile ELSE <<>>

\* What _read_history of a reader class does to the file: JSONLogger and
\* FirebaseConnector move a file that is no JSON list aside, EventLogger
\* leaves it.
ReadEffect(reader) ==
    IF reader = "EventLogger" \/ logKind \in {"absent", "list"}
    THEN UNCHANGED <<logKind, quarantine>>
    ELSE IF logKind = "not-a-list"
    THEN _backup_corrupt_file("not-a-list")
    ELSE _backup_corrupt_file("json-decode-error")

\* The entry JSONLogger.log_event builds.
JsonEntry(ts, photo_path, event_type, metadata) ==
    [timestamp  |-> ts,
     photo_path |-> photo_path,
     event_type |-> event_type,
     metadata   |-> metadata]

\* JSONLogger._normalize_timestamp(None): UTC now, as an ISO string.
_normalize_timestamp == IsoFormat(now)

\* JSONLogger.log_event(): the entry is appended to the history (the legacy
\* producer, used when USE_EVENT_LOGGER is off).
JSONLoggerLogEvent ==
    /\ ~USE_EVENT_LOGGER
    /\ Len(logFile) < MaxLog
    /\ logFile' = Append(logFile, JsonEntry(_normalize_timestamp, "", "fall", {}))
    /\ logKind' = "list"
    /\ now' = now + 1
    /\ UNCHANGED <<esmVars, obsVars, callVars, quarantine, appVars, USE_EVENT_LOGGER,
                   stateFile, remote, connVars, passVars>>

\* The events update and finalize hand to log_event at the present time.
CompletedEvents ==
    {UpdateEvent(Some(now), Some(1), None, Some({}), now + 1, 2),
     FinalizeEvent(Some(now), Some(1), None, Some({}), now + 1)}

\* EventLogger.log_event(event): read the history, append, write it back.
EventLoggerLogEvent ==
    /\ USE_EVENT_LOGGER
    /\ Len(logFile) < MaxLog
    /\ \E ev \in CompletedEvents : logFile' = Append(logFile, ev)
    /\ logKind' = "list"
    /\ now' = now + 2
    /\ UNCHANGED <<esmVars, obsVars, callVars, quarantine, appVars, USE_EVENT_LOGGER,
                   stateFile, remote, connVars, passVars>>

(* ----------------------- log_event, step by step ----------------------- *)

\* The event the k-th call of log_event appends: an event of update on an
\* EventLogger, the entry it builds on a JSONLogger.
CallEvent(i, k) ==
    IF Class(i) = "JSONLogger"
    THEN JsonEntry(IsoFormat(k), "", "fall", {})
    ELSE UpdateEvent(Some(k), Some(k), None, Some({}), k + 1, k + 1)

\* log_event up to the history it works on: the thread takes the lock of
\* its logger instance and _read_history gives h.
LogEventStart(a, h) ==
    /\ log_pc[a] = "idle"
    /\ calls < MaxCalls
    /\ loggerLock[instance[a]] = {}
    /\ loggerLock' = [loggerLock EXCEPT ![instance[a]] = {a}]
    /\ calls' = calls + 1
    /\ event' = [event EXCEPT ![a] = Some(CallEvent(instance[a], calls + 1))]
    /\ log_history' = [log_history EXCEPT ![a] = h]
    /\ log_ret' = [log_ret EXCEPT ![a] = None]
    /\ before' = [before EXCEPT ![a] = Some(<<logKind, logFile>>)]
    /\ log_pc' = [log_pc EXCEPT ![a] = "write"]
    /\ UNCHANGED <<now, esmVars, obsVars, callVars, fileVars, connVars, passVars,
                   instance, tmpFile, appended, lastRead>>

\* log_event: lock and _read_history.
LogEventRead(a) ==
    /\ LogEventStart(a, _read_history)
    /\ ReadEffect(Class(instance[a]))
    /\ failed' = [failed EXCEPT ![a] = FALSE]

\* The same when reading the file raises (an I/O error): _read_history
\* catches the exception and returns [].
LogEventReadFails(a) ==
    /\ logKind # "absent"
    /\ LogEventStart(a, <<>>)
    /\ failed' = [failed EXCEPT ![a] = TRUE]
    /\ UNCHANGED <<logKind, quarantine>>

\* log_event returns: the lock is released.
LogEventReturns(a, value) ==
    /\ log_ret' = [log_ret EXCEPT ![a] = Some(value)]
    /\ loggerLock' = [loggerLock EXCEPT ![instance[a]] = {}]
    /\ tmpFile' = [tmpFile EXCEPT ![a] = None]
    /\ log_pc' = [log_pc EXCEPT ![a] = "idle"]
    /\ UNCHANGED <<now, esmVars, obsVars, callVars, USE_EVENT_LOGGER, stateFile, remote,
                   connVars, passVars, instance, event, log_history, before,
                   calls, lastRead>>

\* _write_history writing the whole history into the destination itself:
\* the file holds a part of the text until the write is complete.
WriteHistoryInPlace(a) ==
    /\ log_pc[a] = "write"
    /\ logKind' = "partial"
    /\ logFile' = <<>>
    /\ tmpFile' = [tmpFile EXCEPT
                      ![a] = Some(Append(log_history[a], Val(event[a])))]
    /\ log_pc' = [log_pc EXCEPT ![a] = "replace"]
    /\ UNCHANGED <<now, esmVars, obsVars, callVars, quarantine, USE_EVENT_LOGGER,
                   stateFile, remote, connVars, passVars, instance, event,
                   log_history, log_ret, before, failed, loggerLock, calls,
                   appended, lastRead>>

\* _write_history up to fsync: the history with the event appended is
\* written to a temporary file beside the destination.
WriteHistoryTemp(a) ==
    /\ log_pc[a] = "write"
    /\ tmpFile' = [tmpFile EXCEPT
                      ![a] = Some(Append(log_history[a], Val(event[a])))]
    /\ log_pc' = [log_pc EXCEPT ![a] = "replace"]
    /\ UNCHANGED <<now, esmVars, obsVars, callVars, diskVars, fileVars, connVars,
                   passVars, instance, event, log_history, log_ret, before,
                   failed, loggerLock, calls, appended, lastRead>>

\* A failed write that was made into the destination itself: the file is
\* left with a part of the text.
WriteHistoryFailsInPlace(a) ==
    /\ log_pc[a] = "write"
    /\ LogEventReturns(a, FALSE)
    /\ failed' = [failed EXCEPT ![a] = TRUE]
    /\ logKind' = "partial"
    /\ logFile' = <<>>
    /\ UNCHANGED <<quarantine, appended>>

\* _write_history when mkstemp, the write or fsync raises: the temporary
\* file is removed and log_event returns False.
WriteHistoryFails(a) ==
    /\ log_pc[a] = "write"
    /\ LogEventReturns(a, FALSE)
    /\ failed' = [failed EXCEPT ![a] = TRUE]
    /\ UNCHANGED <<logKind, quarantine, logFile, appended>>

\* os.replace(tmp, path): the destination becomes the temporary file, and
\* log_event returns True.
ReplaceHistory(a) ==
    /\ log_pc[a] = "replace"
    /\ logFile' = Val(tmpFile[a])
    /\ logKind' = "list"
    /\ appended' = Append(appended, Val(event[a]))
    /\ LogEventReturns(a, TRUE)
    /\ UNCHANGED <<quarantine, failed>>

\* os.replace raises: the temporary file is removed and log_event returns
\* False.
ReplaceFails(a) ==
    /\ log_pc[a] = "replace"
    /\ LogEventReturns(a, FALSE)
    /\ failed' = [failed EXCEPT ![a] = TRUE]
    /\ UNCHANGED <<logKind, quarantine, logFile, appended>>

\* The kinds of file that are no JSON list.
CorruptKinds == {"not-a-list", "garbage", "partial"}

\* A reader calls _read_history (EventLogger.get_events; JSONLogger and
\* FirebaseConnector at the start of log_event and sync_new_events): the
\* value it returns, the kind of file it found, what became of the file,
\* and the threads that were inside log_event at that moment.
ReadHistory(reader) ==
    /\ ReadEffect(reader)
    /\ lastRead' = Some([reader  |-> reader,
                         kind    |-> logKind,
                         during  |-> {a \in Appenders : log_pc[a] # "idle"},
                         history |-> _read_history,
                         backup  |-> IF logKind' # logKind THEN "moved"
                                     ELSE IF reader # "EventLogger"
                                             /\ logKind \in CorruptKinds
                                     THEN "failed"
                                     ELSE "none"])
    /\ UNCHANGED <<now, esmVars, obsVars, callVars, fileVars, connVars, passVars,
                   instance, log_pc, event, log_history, tmpFile, log_ret,
                   before, failed, loggerLock, calls, appended>>

(* ------------------ update and finalize, step by step ------------------ *)

\* The lock of an EventLogger that is never tested.
EventLoggerLockNotTested == TRUE

\* with self._lock (update, finalize): the lock can be taken.
EventLoggerLockFree == loggerLock["event_logger"] = {}

\* What a step of update or finalize leaves alone besides the EventLogger.
CallRest ==
    UNCHANGED <<obsVars, main_pc, sinks, diskVars, fileVars, connVars, passVars,
                instance, log_pc, event, log_history, tmpFile, log_ret,
                before, failed, calls, appended, lastRead>>

\* The fields of the machine that carry the start of the fall.
StartFields == <<fall_start_time, fall_start_frame, fall_photo_path,
                 fall_metadata>>

\* A thread calls update(is_falling, frame_idx, photo_path, metadata) and
\* comes to "with self._lock".
UpdateCalled(a, is_falling, frame, photo_path, metadata) ==
    /\ call_pc[a] = "idle"
    /\ call_op' = [call_op EXCEPT
                      ![a] = Some([op         |-> "update",
                                   is_falling |-> is_falling,
                                   frame_idx  |-> frame,
                                   photo_path |-> photo_path,
                                   metadata   |-> metadata])]
    /\ frame_idx' = frame
    /\ call_pc' = [call_pc EXCEPT ![a] = "lock"]
    /\ UNCHANGED <<now, state, StartFields, completed_event, previous_event,
                   call_now, call_event, transitions, loggerLock>>
    /\ CallRest

\* A thread calls finalize() and comes to "with self._lock".
FinalizeCalled(a) ==
    /\ call_pc[a] = "idle"
    /\ call_op' = [call_op EXCEPT ![a] = Some([op |-> "finalize"])]
    /\ call_pc' = [call_pc EXCEPT ![a] = "lock"]
    /\ UNCHANGED <<now, esmVars, call_now, call_event, transitions,
                   loggerLock>>
    /\ CallRest

\* with self._lock: the thread takes the lock; update reads the clock.
AcquireLock(a) ==
    /\ call_pc[a] = "lock"
    /\ EventLoggerLockFree
    /\ loggerLock' = [loggerLock EXCEPT !["event_logger"] = {a}]
    /\ call_now' = [call_now EXCEPT ![a] = now]
    /\ call_pc' = [call_pc EXCEPT ![a] = Val(call_op[a]).op]
    /\ UNCHANGED <<now, esmVars, call_op, call_event, transitions>>
    /\ CallRest

\* update: the tests on is_falling and self.state.  NORMAL -> FALLING sets
\* the state first; FALLING -> NORMAL builds the event (a start frame of
\* None makes the subtraction raise, and the call ends there); any other
\* case returns None.
UpdateTest(a) ==
    /\ call_pc[a] = "update"
    /\ LET op == Val(call_op[a]) IN
       IF op.is_falling /\ state = "NORMAL"
       THEN /\ state' = "FALLING"
            /\ transitions' = transitions \cup
                   {[start_time  |-> IsoFormat(call_now[a]),
                     start_frame |-> Some(op.frame_idx),
                     metadata    |-> Some(OrEmpty(op.metadata))]}
            /\ call_pc' = [call_pc EXCEPT ![a] = "fall_start_time"]
            /\ UNCHANGED call_event
       ELSE IF ~op.is_falling /\ state = "FALLING"
       THEN /\ IF fall_start_time # None /\ fall_start_frame # None
               THEN /\ call_event' = [call_event EXCEPT ![a] =
                           Some(UpdateEvent(fall_start_time, fall_start_frame,
                                    fall_photo_path, fall_metadata,
                                    call_now[a], op.frame_idx))]
                    /\ call_pc' = [call_pc EXCEPT ![a] = "reset"]
               ELSE /\ call_pc' = [call_pc EXCEPT ![a] =
                           IF fall_start_time = None THEN "reset"
                           ELSE "return"]
                    /\ UNCHANGED call_event
            /\ UNCHANGED <<state, transitions>>
       ELSE /\ call_pc' = [call_pc EXCEPT ![a] = "return"]
            /\ UNCHANGED <<state, transitions, call_event>>
    /\ UNCHANGED <<now, StartFields, frame_idx, completed_event,
                   previous_event, call_op, call_now, loggerLock>>
    /\ CallRest

\* update: self.fall_start_time = now.
UpdateStartTime(a) ==
    /\ call_pc[a] = "fall_start_time"
    /\ fall_start_time' = Some(call_now[a])
    /\ call_pc' = [call_pc EXCEPT ![a] = "fall_start_frame"]
    /\ UNCHANGED <<now, state, fall_start_frame, fall_photo_path,
                   fall_metadata, frame_idx, completed_event, previous_event,
                   call_op, call_now, call_event, transitions, loggerLock>>
    /\ CallRest

\* update: self.fall_start_frame, fall_photo_path and fall_metadata are
\* set from the arguments.
UpdateStartFrame(a) ==
    /\ call_pc[a] = "fall_start_frame"
    /\ fall_start_frame' = Some(Val(call_op[a]).frame_idx)
    /\ fall_photo_path' = Val(call_op[a]).photo_path
    /\ fall_metadata' = Some(OrEmpty(Val(call_op[a]).metadata))
    /\ call_pc' = [call_pc EXCEPT ![a] = "return"]
    /\ UNCHANGED <<now, state, fall_start_time, frame_idx, completed_event,
                   previous_event, call_op, call_now, call_event, transitions,
                   loggerLock>>
    /\ CallRest

\* update: self.state = "NORMAL"; self.fall_start_time = None.
UpdateReset(a) ==
    /\ call_pc[a] = "reset"
    /\ state' = "NORMAL"
    /\ fall_start_time' = None
    /\ call_pc' = [call_pc EXCEPT ![a] = "return"]
    /\ UNCHANGED <<now, fall_start_frame, fall_photo_path, fall_metadata,
                   frame_idx, completed_event, previous_event, call_op,
                   call_now, call_event, transitions, loggerLock>>
    /\ CallRest

\* finalize: the test on self.state, the clock, the test on
\* self.fall_start_time and the event.
FinalizeTest(a) ==
    /\ call_pc[a] = "finalize"
    /\ IF state # "FALLING"
       THEN /\ call_pc' = [call_pc EXCEPT ![a] = "return"]
            /\ UNCHANGED <<state, call_now, call_event>>
       ELSE IF fall_start_time = None
       THEN /\ state' = "NORMAL"
            /\ call_now' = [call_now EXCEPT ![a] = now]
            /\ call_pc' = [call_pc EXCEPT ![a] = "return"]
            /\ UNCHANGED call_event
       ELSE /\ call_now' = [call_now EXCEPT ![a] = now]
            /\ call_event' = [call_event EXCEPT ![a] =
                   Some(FinalizeEvent(fall_start_time, fall_start_frame,
                            fall_photo_path, fall_metadata, now))]
            /\ call_pc' = [call_pc EXCEPT ![a] = "finalize_reset"]
            /\ UNCHANGED state
    /\ UNCHANGED <<now, StartFields, frame_idx, completed_event,
                   previous_event, call_op, transitions, loggerLock>>
    /\ CallRest

\* finalize: the state and the start fields are reset.
FinalizeReset(a) ==
    /\ call_pc[a] = "finalize_reset"
    /\ state' = "NORMAL"
    /\ fall_start_time' = None
    /\ fall_start_frame' = None
    /\ fall_photo_path' = None
    /\ fall_metadata' = None
    /\ call_pc' = [call_pc EXCEPT ![a] = "return"]
    /\ UNCHANGED <<now, frame_idx, completed_event, previous_event, call_op,
                   call_now, call_event, transitions, loggerLock>>
    /\ CallRest

\* The call leaves the with block and returns its event or None to the
\* producer; its locals are gone.
CallReturns(a) ==
    /\ call_pc[a] = "return"
    /\ loggerLock' = [loggerLock EXCEPT !["event_logger"] = {}]
    /\ completed_event' = call_event[a]
    /\ call_op' = [call_op EXCEPT ![a] = None]
    /\ call_now' = [call_now EXCEPT ![a] = 0]
    /\ call_event' = [call_event EXCEPT ![a] = None]
    /\ call_pc' = [call_pc EXCEPT ![a] = "idle"]
    /\ UNCHANGED <<now, state, StartFields, frame_idx, previous_event,
                   transitions>>
    /\ CallRest

\* A second passes.
Second ==
    /\ now + 10 <= MaxTime
    /\ now' = now + 10
    /\ UNCHANGED <<esmVars, obsVars, callVars, diskVars, appVars, fileVars,
                   connVars, passVars>>

(* -------------------------------- main --------------------------------- *)

\* The methods class FirebaseConnector defines.
FirebaseConnectorMethods ==
    {"__init__", "_init_firebase", "_read_history", "_backup_corrupt_file",
     "_read_state", "_write_state", "_parse_iso", "_upload_event",
     "sync_new_events"}

\* connector.<method>(...) raises AttributeError when the class has no such
\* method.
RaisesAttributeError(method) == method \notin FirebaseConnectorMethods

\* Where main goes after handing the value update returned to
\* connector.log_event: the AttributeError takes it out of the loop to the
\* finally block; with None, or with no exception, it stays in the loop.
AfterEvent(ev) ==
    IF ev # None /\ RaisesAttributeError("log_event") THEN "finally"
    ELSE "loop"

\* One iteration of the frame loop with USE_EVENT_LOGGER on: with a person
\* in the frame, update is called and a returned event is handed to
\* connector.log_event; with none, only the frame counter moves.
MainFrame ==
    /\ main_pc = "loop"
    /\ USE_EVENT_LOGGER
    /\ \E frame \in {frame_idx + 1} :
           /\ frame <= MaxFrame
           /\ \/ \E is_falling \in BOOLEAN :
                     /\ Update(is_falling, frame, None,
                               Some({<<"frame_idx", frame>>}))
                     /\ main_pc' = AfterEvent(completed_event')
              \/ /\ frame_idx' = frame
                 /\ UNCHANGED <<now, state, StartFields, completed_event,
                                previous_event, main_pc, diskVars, appVars,
                                fileVars, connVars, passVars>>
    /\ UNCHANGED <<obsVars, call_pc, call_op, call_now, call_event,
                   transitions, sinks>>

\* The video ends or the user presses q: main leaves the loop.
MainBreak ==
    /\ main_pc = "loop"
    /\ main_pc' = "finally"
    /\ UNCHANGED <<now, esmVars, obsVars, call_pc, call_op, call_now,
                   call_event, transitions, sinks, diskVars, appVars, fileVars,
                   connVars, passVars>>

\* The finally block: finalize is called and a returned event is handed to
\* connector.log_event; main is then left, by the AttributeError of that
\* call, by the one pending from the loop, or by reaching its end.
MainFinally ==
    /\ main_pc = "finally"
    /\ USE_EVENT_LOGGER
    /\ Finalize
    /\ main_pc' = "exited"
    /\ UNCHANGED <<call_pc, call_op, call_now, call_event, transitions, sinks>>

(* --------------------------- the producer ------------------------------ *)

\* The frame counter left as it is.
FrameIdxNotIncremented == frame_idx

\* The frame loop's "frame_idx += 1".
NextFrameIdx == frame_idx + 1

\* One iteration of the frame loop of a producer that has an EventLogger
\* (scripts/run_test.py): update is called with the next frame index; a
\* returned event goes to log_event next.
ProducerFrame ==
    /\ USE_EVENT_LOGGER
    /\ main_pc = "loop"
    /\ \E frame \in {NextFrameIdx} :
           /\ frame <= MaxUpdates
           /\ \E is_falling \in BOOLEAN :
                  Update(is_falling, frame, None,
                         Some({<<"frame_idx", frame>>}))
    /\ main_pc' = IF completed_event' # None THEN "log" ELSE "loop"
    /\ UNCHANGED <<obsVars, call_pc, call_op, call_now, call_event,
                   transitions, sinks>>

\* The end of the frame loop: finalize is called; a returned event goes to
\* log_event next.
ProducerFinalize ==
    /\ USE_EVENT_LOGGER
    /\ main_pc = "loop"
    /\ Finalize
    /\ main_pc' = IF completed_event' # None THEN "log_final" ELSE "exited"
    /\ UNCHANGED <<call_pc, call_op, call_now, call_event, transitions, sinks>>

\* event_logger.log_event(completed_event), as a whole: the event is
\* appended to the list in the file, or the write fails and the file is as
\* it was.
ProducerLogs ==
    /\ main_pc \in {"log", "log_final"}
    /\ \/ /\ logFile' = Append(_read_history, Val(completed_event))
          /\ logKind' = "list"
       \/ UNCHANGED <<logFile, logKind>>
    /\ main_pc' = IF main_pc = "log" THEN "loop" ELSE "exited"
    /\ UNCHANGED <<now, esmVars, obsVars, call_pc, call_op, call_now,
                   call_event, transitions, sinks, quarantine, appVars,
                   USE_EVENT_LOGGER, stateFile, remote, connVars, passVars>>

\* The producer is started again, a second or more later: a new
\* EventLogger on the same file and the frame counter at 0.
ProducerRestart ==
    /\ main_pc = "exited"
    /\ now + 10 <= MaxTime
    /\ now' = now + 10
    /\ state' = "NORMAL"
    /\ fall_start_time' = None
    /\ fall_start_frame' = None
    /\ fall_photo_path' = None
    /\ fall_metadata' = None
    /\ frame_idx' = 0
    /\ completed_event' = None
    /\ previous_event' = None
    /\ main_pc' = "loop"
    /\ UNCHANGED <<obsVars, call_pc, call_op, call_now, call_event,
                   transitions, sinks, diskVars, appVars, fileVars, connVars,
                   passVars>>

(* ------------------------------ the sinks ------------------------------ *)

\* The sinks a completed event is handed to after log_event, in order:
\* the report and its e-mail (scripts/run_test.py), or the inline sync, the
\* speaker, MQTT, TCP and the serial port (scripts/run_with_devices.py).
SinkPlans ==
    {<<"report", "email">>, <<"sync", "speaker", "mqtt", "tcp", "serial">>}

\* What the producer leaves alone while it delivers an event.
SinkRest ==
    UNCHANGED <<now, esmVars, obsVars, call_pc, call_op, call_now, call_event,
                transitions, quarantine, appVars, USE_EVENT_LOGGER, stateFile,
                remote, connVars>>

\* event_logger.log_event(completed_event), its result not looked at: the
\* event is appended or the write fails; the sinks come next either way.
DeliverLogs ==
    /\ main_pc = "log"
    /\ \E plan \in SinkPlans :
           \/ /\ logFile' = Append(_read_history, Val(completed_event))
              /\ logKind' = "list"
              /\ sinks' = [stored |-> TRUE, pending |-> plan, errors |-> {}]
           \/ /\ UNCHANGED <<logFile, logKind>>
              /\ sinks' = [stored |-> FALSE, pending |-> plan, errors |-> {}]
    /\ main_pc' = "sinks"
    /\ SinkRest
    /\ UNCHANGED passVars

\* The next sink does its work and returns.
SinkReturns ==
    /\ main_pc = "sinks"
    /\ sinks.pending # <<>>
    /\ Head(sinks.pending) \notin {"sync", "syncing"}
    /\ sinks' = [sinks EXCEPT !.pending = Tail(@)]
    /\ UNCHANGED <<main_pc, logFile, logKind, passVars>>
    /\ SinkRest

\* A failing sink taking the stored event back out of the log.
SinkRaisesRollsBack ==
    /\ main_pc = "sinks"
    /\ sinks.pending # <<>>
    /\ Head(sinks.pending) \notin {"sync", "syncing"}
    /\ sinks' = [sinks EXCEPT
                    !.errors = @ \cup {Head(sinks.pending)},
                    !.pending = IF Head(@) = "report" THEN <<>> ELSE Tail(@)]
    /\ logFile' = IF logFile = <<>> THEN logFile
                  ELSE SubSeq(logFile, 1, Len(logFile) - 1)
    /\ UNCHANGED <<main_pc, logKind, passVars>>
    /\ SinkRest

\* The next sink raises: the except clause around it logs the exception
\* and the producer goes on (a failed report skips its e-mail, which is in
\* the same try).
SinkRaises ==
    /\ main_pc = "sinks"
    /\ sinks.pending # <<>>
    /\ Head(sinks.pending) \notin {"sync", "syncing"}
    /\ sinks' = [sinks EXCEPT
                    !.errors = @ \cup {Head(sinks.pending)},
                    !.pending = IF Head(@) = "report" THEN <<>> ELSE Tail(@)]
    /\ UNCHANGED <<main_pc, logFile, logKind, passVars>>
    /\ SinkRest

\* connector.sync_new_events() called by the producer itself.
SinkSyncCalled ==
    /\ main_pc = "sinks"
    /\ sinks.pending # <<>>
    /\ Head(sinks.pending) = "sync"
    /\ \E t \in Threads \ {0} :
           /\ pc[t] = "idle"
           /\ pc' = [pc EXCEPT ![t] = "wait"]
    /\ sinks' = [sinks EXCEPT !.pending = <<"syncing">> \o Tail(@)]
    /\ UNCHANGED <<main_pc, logFile, logKind, history, last_dt, candidates,
                   idx, attempt, slept, uploaded, results>>
    /\ SinkRest

\* sync_new_events has returned to the producer.
SinkSyncReturns ==
    /\ main_pc = "sinks"
    /\ sinks.pending # <<>>
    /\ Head(sinks.pending) = "syncing"
    /\ \A t \in Threads \ {0} : pc[t] \in {"idle", "done"}
    /\ sinks' = [sinks EXCEPT !.pending = Tail(@)]
    /\ UNCHANGED <<main_pc, logFile, logKind, passVars>>
    /\ SinkRest

\* Every sink was called: the frame loop goes on.
SinksDone ==
    /\ main_pc = "sinks"
    /\ sinks.pending = <<>>
    /\ main_pc' = "loop"
    /\ sinks' = NoSinks
    /\ UNCHANGED <<logFile, logKind, passVars>>
    /\ SinkRest

(* ------------------------- FirebaseConnector --------------------------- *)

\* FirebaseConnector._read_state: the stripped content, None when the file
\* is absent or empty.
_read_state ==
    IF stateFile = None \/ Val(stateFile) = [text |-> ""]
    THEN None ELSE stateFile

\* last_dt = self._parse_iso(last_state) if last_state else None
LastDt(last_state) ==
    IF last_state # None THEN _parse_iso(Val(last_state)) ELSE None

\* An event of the history has a timestamp that parses.
HasDt(ev) ==
    LET ts == Get(ev, "timestamp") IN
        /\ ts # None
        /\ Val(ts) # [text |-> ""]
        /\ _parse_iso(Val(ts)) # None

\* ev_dt, for an event that has one.
EvDt(ev) == Val(_parse_iso(ev.timestamp))

\* IsCandidate with "at or after the cursor" for "after the cursor".
IsCandidateAtOrAfter(ev, last) ==
    HasDt(ev) /\ (last = None \/ EvDt(ev) >= Val(last))

\* IsCandidate without the comparison with the cursor.
IsCandidateAlways(ev, last) == HasDt(ev)

\* The test of the candidate loop of sync_new_events.
IsCandidate(ev, last) ==
    HasDt(ev) /\ (last = None \/ EvDt(ev) > Val(last))

RECURSIVE InsertByDt(_, _)
InsertByDt(c, sorted) ==
    IF sorted = <<>> THEN <<c>>
    ELSE IF Head(sorted).ev_dt <= c.ev_dt
         THEN <<Head(sorted)>> \o InsertByDt(c, Tail(sorted))
         ELSE <<c>> \o sorted

\* candidates.sort(key=lambda x: x[0]): ascending and stable.
RECURSIVE SortByDt(_)
SortByDt(cs) ==
    IF cs = <<>> THEN <<>>
    ELSE InsertByDt(cs[Len(cs)], SortByDt(SubSeq(cs, 1, Len(cs) - 1)))

\* The pairs (ev_dt, ev) of the events that pass the test, in file order.
Selected(h, last) ==
    LET keep == SelectSeq(h, LAMBDA ev : IsCandidate(ev, last)) IN
        [i \in 1 .. Len(keep) |-> [ev_dt |-> EvDt(keep[i]), ev |-> keep[i]]]

\* Candidates without the sort.
CandidatesUnsorted(h, last) == Selected(h, last)

\* The candidates of a pass.
Candidates(h, last) == SortByDt(Selected(h, last))

\* LockFree for a connector whose lock is never tested.
LockNotTested == TRUE

\* with self._lock: the lock can be taken.
LockFree == _lock = {}

\* Where a thread is after sync_new_events returned: the periodic worker
\* sleeps until its next tick, an event-triggered thread has ended.
Left(t) == IF t = 0 THEN "idle" ELSE "done"

\* The locals of a thread that is not in sync_new_events.
InitialLocals(t) ==
    /\ history' = [history EXCEPT ![t] = <<>>]
    /\ last_dt' = [last_dt EXCEPT ![t] = None]
    /\ candidates' = [candidates EXCEPT ![t] = <<>>]
    /\ idx' = [idx EXCEPT ![t] = 1]
    /\ attempt' = [attempt EXCEPT ![t] = 1]
    /\ uploaded' = [uploaded EXCEPT ![t] = 0]
    /\ results' = [results EXCEPT ![t] = <<>>]
    /\ slept' = [slept EXCEPT ![t] = <<>>]

\* _start_periodic_sync._worker: the worker calls conn.sync_new_events().
PeriodicSync ==
    /\ pc[0] = "idle"
    /\ pc' = [pc EXCEPT ![0] = "wait"]
    /\ UNCHANGED <<now, esmVars, obsVars, callVars, diskVars, appVars, fileVars,
                   connVars, history, last_dt, candidates, idx, attempt, slept,
                   uploaded, results>>

\* main: threading.Thread(target=connector.sync_new_events).start()
TriggerSync(t) ==
    /\ t # 0
    /\ pc[t] = "idle"
    /\ pc' = [pc EXCEPT ![t] = "wait"]
    /\ UNCHANGED <<now, esmVars, obsVars, callVars, diskVars, appVars, fileVars,
                   connVars, history, last_dt, candidates, idx, attempt, slept,
                   uploaded, results>>

\* sync_new_events, from taking the lock to the sorted candidates; with an
\* empty history it returns 0 at once.
BeginSync(t) ==
    /\ pc[t] = "wait"
    /\ LockFree
    /\ LET h == _read_history
           last == LastDt(_read_state)
       IN  IF h = <<>>
           THEN /\ pc' = [pc EXCEPT ![t] = Left(t)]
                /\ UNCHANGED <<_lock, history, last_dt, candidates>>
           ELSE /\ pc' = [pc EXCEPT ![t] = "upload"]
                /\ _lock' = _lock \cup {t}
                /\ history' = [history EXCEPT ![t] = h]
                /\ last_dt' = [last_dt EXCEPT ![t] = last]
                /\ candidates' = [candidates EXCEPT ![t] = Candidates(h, last)]
    /\ ReadEffect("FirebaseConnector")
    /\ UNCHANGED <<now, esmVars, obsVars, callVars, appVars, fileVars, client, idx,
                   attempt, slept, uploaded, results>>

\* The wait with no growth from one attempt to the next.
BackoffConstant(n) == retry_backoff

\* time.sleep(self.retry_backoff * attempt): the wait after the failed
\* attempt number n.
Backoff(n) == retry_backoff * n

\* The waits the call of _upload_event in progress has made: none at its
\* first attempt.
Waits(t) == IF attempt[t] = 1 THEN <<>> ELSE slept[t]

\* What _upload_event returning False leaves: the loop goes to the next
\* candidate.
UploadReturnsFalse(t) ==
    /\ results' = [results EXCEPT ![t] = Append(@, "failed")]
    /\ idx' = [idx EXCEPT ![t] = @ + 1]
    /\ attempt' = [attempt EXCEPT ![t] = 1]

\* _upload_event with no client: False, with no attempt.
UploadNoClient(t) ==
    /\ pc[t] = "upload"
    /\ idx[t] <= Len(candidates[t])
    /\ client = "None"
    /\ UploadReturnsFalse(t)
    /\ slept' = [slept EXCEPT ![t] = <<>>]
    /\ UNCHANGED <<now, esmVars, obsVars, callVars, diskVars, appVars, fileVars,
                   connVars, pc, history, last_dt, candidates, uploaded>>

\* One attempt of _upload_event raises: sleep and try again, or return
\* False after the last attempt.
UploadAttemptFails(t) ==
    /\ pc[t] = "upload"
    /\ idx[t] <= Len(candidates[t])
    /\ client = "Firestore"
    /\ IF attempt[t] < max_retries
       THEN /\ attempt' = [attempt EXCEPT ![t] = @ + 1]
            /\ UNCHANGED <<results, idx>>
       ELSE UploadReturnsFalse(t)
    /\ slept' = [slept EXCEPT ![t] = Append(Waits(t), Backoff(attempt[t]))]
    /\ UNCHANGED <<now, esmVars, obsVars, callVars, diskVars, appVars, fileVars,
                   connVars, pc, history, last_dt, candidates, uploaded>>

\* The same attempt taking the uploaded event out of the log.
UploadAttemptSucceedsAndRemoves(t) ==
    /\ pc[t] = "upload"
    /\ idx[t] <= Len(candidates[t])
    /\ client = "Firestore"
    /\ Len(remote) < MaxRemote
    /\ remote' = Append(remote, candidates[t][idx[t]].ev)
    /\ results' = [results EXCEPT ![t] = Append(@, "uploaded")]
    /\ uploaded' = [uploaded EXCEPT ![t] = @ + 1]
    /\ attempt' = [attempt EXCEPT ![t] = 1]
    /\ slept' = [slept EXCEPT ![t] = Waits(t)]
    /\ pc' = [pc EXCEPT ![t] = "save"]
    /\ logFile' = SelectSeq(logFile,
                            LAMBDA ev : ev # candidates[t][idx[t]].ev)
    /\ UNCHANGED <<now, esmVars, obsVars, callVars, diskVars, appVars,
                   USE_EVENT_LOGGER, stateFile, connVars, history,
                   last_dt, candidates, idx>>

\* One attempt of _upload_event adds the document: True.  uploaded += 1.
UploadAttemptSucceeds(t) ==
    /\ pc[t] = "upload"
    /\ idx[t] <= Len(candidates[t])
    /\ client = "Firestore"
    /\ Len(remote) < MaxRemote
    /\ remote' = Append(remote, candidates[t][idx[t]].ev)
    /\ results' = [results EXCEPT ![t] = Append(@, "uploaded")]
    /\ uploaded' = [uploaded EXCEPT ![t] = @ + 1]
    /\ attempt' = [attempt EXCEPT ![t] = 1]
    /\ slept' = [slept EXCEPT ![t] = Waits(t)]
    /\ pc' = [pc EXCEPT ![t] = "save"]
    /\ UNCHANGED <<now, esmVars, obsVars, callVars, diskVars, appVars,
                   USE_EVENT_LOGGER, logFile, stateFile, connVars, history,
                   last_dt, candidates, idx>>

\* The write of the cursor left out: the loop goes on as if it were made.
WriteStateSkipped(t) ==
    /\ pc[t] = "save"
    /\ results' = [results EXCEPT ![t][idx[t]] = "saved"]
    /\ idx' = [idx EXCEPT ![t] = @ + 1]
    /\ pc' = [pc EXCEPT ![t] = "upload"]
    /\ UNCHANGED <<now, esmVars, obsVars, callVars, diskVars, appVars,
                   fileVars, connVars, history, last_dt, candidates, attempt, slept,
                   uploaded>>

\* The cursor written with the identity of the first candidate of the
\* pass, whichever was uploaded.
WriteStateOfFirstCandidate(t) ==
    /\ pc[t] = "save"
    /\ stateFile' = Some(IsoFormat(candidates[t][1].ev_dt))
    /\ results' = [results EXCEPT ![t][idx[t]] = "saved"]
    /\ idx' = [idx EXCEPT ![t] = @ + 1]
    /\ pc' = [pc EXCEPT ![t] = "upload"]
    /\ UNCHANGED <<now, esmVars, obsVars, callVars, diskVars, appVars,
                   USE_EVENT_LOGGER, logFile, remote, connVars, history,
                   last_dt, candidates, attempt, slept, uploaded>>

\* _write_state(ev_dt.isoformat()) replaces the cursor file.
WriteStateSucceeds(t) ==
    /\ pc[t] = "save"
    /\ stateFile' = Some(IsoFormat(candidates[t][idx[t]].ev_dt))
    /\ results' = [results EXCEPT ![t][idx[t]] = "saved"]
    /\ idx' = [idx EXCEPT ![t] = @ + 1]
    /\ pc' = [pc EXCEPT ![t] = "upload"]
    /\ UNCHANGED <<now, esmVars, obsVars, callVars, diskVars, appVars,
                   USE_EVENT_LOGGER, logFile, remote, connVars, history,
                   last_dt, candidates, attempt, slept, uploaded>>

\* _write_state raises inside: the exception is logged, the file is as it
\* was.
WriteStateFails(t) ==
    /\ pc[t] = "save"
    /\ idx' = [idx EXCEPT ![t] = @ + 1]
    /\ pc' = [pc EXCEPT ![t] = "upload"]
    /\ UNCHANGED <<now, esmVars, obsVars, callVars, diskVars, appVars, fileVars,
                   connVars, history, last_dt, candidates, attempt, slept, uploaded,
                   results>>

\* The loop is over: sync_new_events returns uploaded and the lock is
\* released.
EndSync(t) ==
    /\ pc[t] = "upload"
    /\ idx[t] > Len(candidates[t])
    /\ _lock' = _lock \ {t}
    /\ pc' = [pc EXCEPT ![t] = Left(t)]
    /\ InitialLocals(t)
    /\ UNCHANGED <<now, esmVars, obsVars, callVars, diskVars, appVars, fileVars,
                   client>>

\* sync_new_events with the read and the quarantine of _read_history as
\* the two steps they are: json.load raises, or gives something that is no
\* list, and _backup_corrupt_file is called next.
SyncReadsUnreadable(t) ==
    /\ pc[t] = "wait"
    /\ LockFree
    /\ logKind \in {"not-a-list", "garbage", "partial"}
    /\ _lock' = _lock \cup {t}
    /\ pc' = [pc EXCEPT ![t] = "backup"]
    /\ UNCHANGED <<now, esmVars, obsVars, callVars, diskVars, appVars, fileVars,
                   client, history, last_dt, candidates, idx, attempt, slept,
                   uploaded, results>>

\* _backup_corrupt_file: os.replace(self.json_log_path, backup_path) moves
\* the file that is at the path now (with none it raises, and so it can
\* for other reasons: the exception is swallowed); _read_history returns []
\* and sync_new_events returns 0.
SyncBacksUp(t) ==
    /\ pc[t] = "backup"
    /\ \/ /\ logKind # "absent"
          /\ logKind' = "absent"
          /\ logFile' = <<>>
          /\ \E reason \in {"not-a-list", "json-decode-error"} :
                 quarantine' = quarantine \cup {BackupName(reason)}
       \/ UNCHANGED <<logKind, logFile, quarantine>>
    /\ _lock' = _lock \ {t}
    /\ pc' = [pc EXCEPT ![t] = Left(t)]
    /\ UNCHANGED <<now, esmVars, obsVars, callVars, appVars, USE_EVENT_LOGGER,
                   stateFile, remote, client, history, last_dt, candidates,
                   idx, attempt, slept, uploaded, results>>

\* The process dies and is started again: the files and the remote
\* collection stay, the connector, its lock and its threads are new.
Restart ==
    /\ client' \in {"None", "Firestore"}
    /\ _lock' = {}
    /\ pc' = [t \in Threads |-> "idle"]
    /\ history' = [t \in Threads |-> <<>>]
    /\ last_dt' = [t \in Threads |-> None]
    /\ candidates' = [t \in Threads |-> <<>>]
    /\ idx' = [t \in Threads |-> 1]
    /\ attempt' = [t \in Threads |-> 1]
    /\ slept' = [t \in Threads |-> <<>>]
    /\ uploaded' = [t \in Threads |-> 0]
    /\ results' = [t \in Threads |-> <<>>]
    /\ UNCHANGED <<now, esmVars, obsVars, callVars, diskVars, appVars, fileVars>>

(* --------------------------- specifications ---------------------------- *)

\* No thread is in update or finalize.
IdleCallers ==
    /\ call_pc = [a \in Appenders |-> "idle"]
    /\ call_op = [a \in Appenders |-> None]
    /\ call_now = [a \in Appenders |-> 0]
    /\ call_event = [a \in Appenders |-> None]
    /\ transitions = {}
    /\ main_pc = "loop"
    /\ sinks = NoSinks

\* No thread is in log_event.
IdleLoggers ==
    /\ log_pc = [a \in Appenders |-> "idle"]
    /\ event = [a \in Appenders |-> None]
    /\ log_history = [a \in Appenders |-> <<>>]
    /\ tmpFile = [a \in Appenders |-> None]
    /\ log_ret = [a \in Appenders |-> None]
    /\ before = [a \in Appenders |-> None]
    /\ failed = [a \in Appenders |-> FALSE]
    /\ loggerLock = [i \in Instances |-> {}]
    /\ calls = 0
    /\ appended = <<>>
    /\ lastRead = None

Init ==
    /\ now = 0
    /\ state = "NORMAL"
    /\ fall_start_time = None
    /\ fall_start_frame = None
    /\ fall_photo_path = None
    /\ fall_metadata = None
    /\ frame_idx = 0
    /\ completed_event = None
    /\ previous_event = None
    /\ run_start = None
    /\ runs = <<>>
    /\ emitted = 0
    /\ USE_EVENT_LOGGER \in BOOLEAN
    /\ logFile = <<>>
    /\ logKind = "absent"
    /\ quarantine = {}
    /\ instance = [a \in Appenders |-> "event_logger"]
    /\ IdleCallers
    /\ IdleLoggers
    /\ stateFile = None
    /\ remote = <<>>
    /\ client \in {"None", "Firestore"}
    /\ _lock = {}
    /\ pc = [t \in Threads |-> "idle"]
    /\ history = [t \in Threads |-> <<>>]
    /\ last_dt = [t \in Threads |-> None]
    /\ candidates = [t \in Threads |-> <<>>]
    /\ idx = [t \in Threads |-> 1]
    /\ attempt = [t \in Threads |-> 1]
    /\ slept = [t \in Threads |-> <<>>]
    /\ uploaded = [t \in Threads |-> 0]
    /\ results = [t \in Threads |-> <<>>]

\* The producer of the state-machine specification: one EventLogger fed by
\* one loop, with no history file and no connector.
InitESM == Init /\ USE_EVENT_LOGGER /\ client = "None"

UpdateCall ==
    \E is_falling \in BOOLEAN :
        \E frame \in {frame_idx + 1} :
            \E metadata \in MetadataArgs(frame) :
                /\ frame <= MaxFrame
                /\ Update(is_falling, frame, None, metadata)
                /\ UNCHANGED <<obsVars, callVars>>

FinalizeCall == Finalize /\ UNCHANGED callVars

NextESM == Tick \/ UpdateCall \/ FinalizeCall

SpecESM == InitESM /\ [][NextESM]_vars

\* The same producer, the signals that open a fall being recorded with
\* what was supplied with them.
OpeningCall ==
    \E is_falling \in BOOLEAN :
        \E frame \in {frame_idx + 1} :
            \E metadata \in MetadataArgs(frame) :
                /\ frame <= MaxFrame
                /\ Update(is_falling, frame, None, metadata)
                /\ transitions' =
                       IF is_falling /\ state = "NORMAL"
                       THEN transitions \cup
                                {[start_time  |-> IsoFormat(now),
                                  start_frame |-> Some(frame),
                                  metadata    |-> IF metadata = None
                                                  THEN Some({}) ELSE metadata]}
                       ELSE transitions
                /\ UNCHANGED <<obsVars, call_pc, call_op, call_now,
                               call_event, main_pc, sinks>>

NextOpenings == Second \/ OpeningCall \/ FinalizeCall

SpecOpenings == InitESM /\ [][NextOpenings]_vars

\* A caller of update whose frame indices never decrease: the same index
\* again, the next one, or one after a gap.
FrameSteps == {0, 1, 2}

NonDecreasingCall ==
    \E is_falling \in BOOLEAN :
        \E frame \in {frame_idx + d : d \in FrameSteps} :
            \E metadata \in MetadataArgs(frame) :
                /\ frame <= MaxFrame
                /\ Update(is_falling, frame, None, metadata)
                /\ UNCHANGED <<obsVars, callVars>>

NextFrames == Second \/ NonDecreasingCall

SpecFrames == InitESM /\ [][NextFrames]_vars

\* The same producer feeding timed signals to update alone, the signals
\* being recorded.
SignalCall ==
    \E is_falling \in BOOLEAN :
        \E frame \in {frame_idx + 1} :
            \E metadata \in MetadataArgs(frame) :
                /\ frame <= MaxFrame
                /\ Update(is_falling, frame, None, metadata)
                /\ Observe(is_falling)
                /\ UNCHANGED callVars

NextSignals == Tick \/ SignalCall

SpecSignals == InitESM /\ [][NextSignals]_vars

\* Several threads calling update and finalize on one EventLogger, at any
\* moment of each other's calls, while time passes.
CallStep(a) ==
    \/ \E is_falling \in BOOLEAN :
           \E frame \in {frame_idx + 1} :
               /\ frame <= MaxUpdates
               /\ UpdateCalled(a, is_falling, frame, None,
                               Some({<<"frame_idx", frame>>}))
    \/ FinalizeCalled(a)
    \/ AcquireLock(a)
    \/ UpdateTest(a)
    \/ UpdateStartTime(a)
    \/ UpdateStartFrame(a)
    \/ UpdateReset(a)
    \/ FinalizeTest(a)
    \/ FinalizeReset(a)
    \/ CallReturns(a)

NextCalls == Second \/ \E a \in Appenders : CallStep(a)

SpecCalls == InitESM /\ [][NextCalls]_vars

\* main with USE_EVENT_LOGGER on, fed any frames while time passes.
NextMain == Tick \/ MainFrame \/ MainBreak \/ MainFinally

SpecMain == InitESM /\ [][NextMain]_vars

\* One producer at a time: frames, finalize at the end, every returned
\* event handed to log_event once, and the producer started again.
NextProducer ==
    \/ Second
    \/ ProducerFrame
    \/ ProducerFinalize
    \/ ProducerLogs
    \/ ProducerRestart

SpecProducer == InitESM /\ [][NextProducer]_vars

\* The history file, its producer and the connector with its threads.
SyncStep(t) ==
    \/ BeginSync(t)
    \/ UploadNoClient(t)
    \/ UploadAttemptFails(t)
    \/ UploadAttemptSucceeds(t)
    \/ WriteStateSucceeds(t)
    \/ WriteStateFails(t)
    \/ EndSync(t)

\* One run of the process: the producer appends, the periodic worker and
\* the event-triggered threads synchronise.
NextRun ==
    \/ JSONLoggerLogEvent
    \/ EventLoggerLogEvent
    \/ PeriodicSync
    \/ \E t \in Threads : TriggerSync(t)
    \/ \E t \in Threads : SyncStep(t)

\* The same with the process dying and being started again at any moment.
NextSync == NextRun \/ Restart

SpecSync == Init /\ [][NextSync]_vars

\* A run in which the periodic worker keeps calling sync_new_events, every
\* thread inside it goes on, and an upload attempt and a cursor write that
\* are tried again and again succeed in the end.
FairSync ==
    /\ Init
    /\ [][NextRun]_vars
    /\ WF_vars(PeriodicSync)
    /\ \A t \in Threads :
           /\ WF_vars(SyncStep(t))
           /\ SF_vars(UploadAttemptSucceeds(t))
           /\ SF_vars(WriteStateSucceeds(t))

\* The whole program: the producer appends to the history (with
\* USE_EVENT_LOGGER on, the events update and finalize return to it; with
\* it off, an entry for a frame), readers read the history, and the
\* periodic worker synchronises.
NextSystem ==
    \/ JSONLoggerLogEvent
    \/ ProducerFrame
    \/ ProducerFinalize
    \/ ProducerLogs
    \/ \E reader \in Readers : ReadHistory(reader)
    \/ PeriodicSync
    \/ SyncStep(0)

SpecSystem == Init /\ [][NextSystem]_vars

\* Passes over any history: the entries a caller of JSONLogger.log_event
\* can have written (any timestamp string, in any order) or an entry with
\* no timestamp, no two for the same instant, and any cursor file.
PassTimestamps ==
    {IsoFormat(d) : d \in 1 .. 3}
        \cup {[local |-> 2, tz |-> ""], [local |-> 36003, tz |-> "+01:00"],
              [text |-> "garbage"]}

PassEntries ==
    {JsonEntry(ts, "", "fall", {}) : ts \in PassTimestamps}
        \cup {[photo_path |-> "", event_type |-> "fall", metadata |-> {}]}

PassHistories ==
    {h \in UNION {[1 .. n -> PassEntries] : n \in 0 .. MaxHistory} :
        \A i, j \in DOMAIN h :
            i # j => /\ h[i] # h[j]
                     /\ (HasDt(h[i]) /\ HasDt(h[j])) => EvDt(h[i]) # EvDt(h[j])}

PassStates ==
    {None, Some([text |-> "garbage"])} \cup {Some(IsoFormat(d)) : d \in 1 .. 3}

InitPass ==
    /\ now = 0
    /\ state = "NORMAL"
    /\ fall_start_time = None
    /\ fall_start_frame = None
    /\ fall_photo_path = None
    /\ fall_metadata = None
    /\ frame_idx = 0
    /\ completed_event = None
    /\ previous_event = None
    /\ run_start = None
    /\ runs = <<>>
    /\ emitted = 0
    /\ USE_EVENT_LOGGER = FALSE
    /\ logFile \in PassHistories
    /\ logKind \in (IF logFile = <<>> THEN {"absent", "list"} ELSE {"list"})
    /\ quarantine = {}
    /\ instance = [a \in Appenders |-> "event_logger"]
    /\ IdleCallers
    /\ IdleLoggers
    /\ stateFile \in PassStates
    /\ remote = <<>>
    /\ client \in {"None", "Firestore"}
    /\ _lock = {}
    /\ pc = [t \in Threads |-> "idle"]
    /\ history = [t \in Threads |-> <<>>]
    /\ last_dt = [t \in Threads |-> None]
    /\ candidates = [t \in Threads |-> <<>>]
    /\ idx = [t \in Threads |-> 1]
    /\ attempt = [t \in Threads |-> 1]
    /\ slept = [t \in Threads |-> <<>>]
    /\ uploaded = [t \in Threads |-> 0]
    /\ results = [t \in Threads |-> <<>>]

NextPass == PeriodicSync \/ SyncStep(0)

SpecPass == InitPass /\ [][NextPass]_vars

\* The producer before its first call and every sync thread idle.
IdleProducer ==
    /\ state = "NORMAL"
    /\ fall_start_time = None
    /\ fall_start_frame = None
    /\ fall_photo_path = None
    /\ fall_metadata = None
    /\ frame_idx = 0
    /\ completed_event = None
    /\ previous_event = None
    /\ run_start = None
    /\ runs = <<>>
    /\ emitted = 0

IdleSync ==
    /\ _lock = {}
    /\ pc = [t \in Threads |-> "idle"]
    /\ history = [t \in Threads |-> <<>>]
    /\ last_dt = [t \in Threads |-> None]
    /\ candidates = [t \in Threads |-> <<>>]
    /\ idx = [t \in Threads |-> 1]
    /\ attempt = [t \in Threads |-> 1]
    /\ slept = [t \in Threads |-> <<>>]
    /\ uploaded = [t \in Threads |-> 0]
    /\ results = [t \in Threads |-> <<>>]

\* The loggers and the readers of one history file: the threads' logger
\* instances are one of instances, the file (kind and list) one of files.
InitFile(instances, files) ==
    /\ now = 0
    /\ IdleProducer
    /\ USE_EVENT_LOGGER = TRUE
    /\ \E f \in files : logKind = f[1] /\ logFile = f[2]
    /\ quarantine = {}
    /\ instance \in instances
    /\ IdleCallers
    /\ IdleLoggers
    /\ stateFile = None
    /\ remote = <<>>
    /\ client = "None"
    /\ IdleSync

\* The producer handing every completed event to log_event and then to
\* the sinks, each of which returns or raises.
NextSinks ==
    \/ Second
    \/ ProducerFrame
    \/ DeliverLogs
    \/ SinkReturns
    \/ SinkRaises
    \/ SinkSyncCalled
    \/ SinkSyncReturns
    \/ SinksDone
    \/ \E t \in Threads \ {0} : SyncStep(t)

\* The log at the start: absent, or a list that already holds an entry
\* with a timestamp (one JSONLogger wrote), which a sync pass will try to
\* upload.
SinkLogs ==
    {<<"absent", <<>> >>,
     <<"list", <<JsonEntry(IsoFormat(1), "", "fall", {})>> >>}

InitSinks ==
    /\ now = 0
    /\ IdleProducer
    /\ USE_EVENT_LOGGER = TRUE
    /\ \E f \in SinkLogs : logKind = f[1] /\ logFile = f[2]
    /\ quarantine = {}
    /\ instance = [a \in Appenders |-> "event_logger"]
    /\ IdleCallers
    /\ IdleLoggers
    /\ stateFile = None
    /\ remote = <<>>
    /\ client \in {"None", "Firestore"}
    /\ IdleSync

SpecSinks == InitSinks /\ [][NextSinks]_vars

\* The states an EventLogger can be put in: the one __init__ leaves, a fall
\* in progress, and FALLING with no start time (its attributes are public:
\* finalize has a branch for it), with and without the other start fields.
MachineStates ==
    {[state |-> "NORMAL", fall_start_time |-> None, fall_start_frame |-> None,
      fall_metadata |-> None],
     [state |-> "FALLING", fall_start_time |-> Some(0),
      fall_start_frame |-> Some(0), fall_metadata |-> Some({})],
     [state |-> "FALLING", fall_start_time |-> None, fall_start_frame |-> None,
      fall_metadata |-> None],
     [state |-> "FALLING", fall_start_time |-> None,
      fall_start_frame |-> Some(0), fall_metadata |-> Some({})]}

\* The producer calling update and finalize on a machine found in any of
\* these states.
InitMachine ==
    /\ now = 0
    /\ \E m \in MachineStates :
           /\ state = m.state
           /\ fall_start_time = m.fall_start_time
           /\ fall_start_frame = m.fall_start_frame
           /\ fall_metadata = m.fall_metadata
    /\ fall_photo_path = None
    /\ frame_idx = 0
    /\ completed_event = None
    /\ previous_event = None
    /\ run_start = None
    /\ runs = <<>>
    /\ emitted = 0
    /\ USE_EVENT_LOGGER = TRUE
    /\ logFile = <<>>
    /\ logKind = "absent"
    /\ quarantine = {}
    /\ instance = [a \in Appenders |-> "event_logger"]
    /\ IdleCallers
    /\ IdleLoggers
    /\ stateFile = None
    /\ remote = <<>>
    /\ client = "None"
    /\ IdleSync

SpecMachine == InitMachine /\ [][NextESM]_vars

\* Passes over any file: absent, a list of entries, JSON that is no list,
\* and text that is no JSON; with and without a client.
AnyLogFiles ==
    {<<"list", h>> : h \in PassHistories}
        \cup {<<"absent", <<>> >>, <<"not-a-list", <<>> >>, <<"garbage", <<>> >>}

InitAnyLog ==
    /\ now = 0
    /\ IdleProducer
    /\ USE_EVENT_LOGGER = FALSE
    /\ \E f \in AnyLogFiles : logKind = f[1] /\ logFile = f[2]
    /\ quarantine = {}
    /\ instance = [a \in Appenders |-> "event_logger"]
    /\ IdleCallers
    /\ IdleLoggers
    /\ stateFile \in PassStates
    /\ remote = <<>>
    /\ client \in {"None", "Firestore"}
    /\ IdleSync

SpecAnyLog == InitAnyLog /\ [][NextPass]_vars

\* Every thread on the same logger instance, whichever it is.
OneInstance ==
    {f \in [Appenders -> Instances] : \A a \in Appenders : f[a] = f[1]}

\* One thread appending to a log that is absent at first, a write or the
\* rename failing at any call, and the readers reading at any moment.
InitAppend == InitFile(OneInstance, {<<"absent", <<>> >>})

LogStep(a) ==
    \/ LogEventRead(a)
    \/ WriteHistoryTemp(a)
    \/ WriteHistoryFails(a)
    \/ ReplaceHistory(a)
    \/ ReplaceFails(a)

NextAppend == LogStep(1) \/ \E reader \in Readers : ReadHistory(reader)

SpecAppend == InitAppend /\ [][NextAppend]_vars

\* The same with the read of the existing history failing too.
NextAppendIO == NextAppend \/ LogEventReadFails(1)

SpecAppendIO == InitAppend /\ [][NextAppendIO]_vars

\* Several threads appending, on the same logger instance or on different
\* instances opened on the same file.
InitAppenders == InitFile([Appenders -> Instances], {<<"absent", <<>> >>})

NextAppenders == \E a \in Appenders : LogStep(a)

SpecAppenders == InitAppenders /\ [][NextAppenders]_vars

\* An EventLogger appending to a file that is unreadable at first while
\* the periodic worker's passes read it and move it aside.
UnreadableFiles == {<<"not-a-list", <<>> >>, <<"garbage", <<>> >>}

InitQuarantine ==
    InitFile({[a \in Appenders |-> "event_logger"]}, UnreadableFiles)

NextQuarantine ==
    \/ LogStep(1)
    \/ PeriodicSync
    \/ SyncReadsUnreadable(0)
    \/ SyncBacksUp(0)

SpecQuarantine == InitQuarantine /\ [][NextQuarantine]_vars

\* The files a reader can find: absent, a list, JSON that is no list, and
\* text that is no JSON.
StoredFiles ==
    {<<"absent", <<>> >>, <<"not-a-list", <<>> >>, <<"garbage", <<>> >>}
        \cup {<<"list", h>> : h \in {<<>>, <<CallEvent("event_logger", 0)>>,
                                      <<CallEvent("json_logger", 0)>>}}

InitRead == InitFile(OneInstance, StoredFiles)

SpecRead == InitRead /\ [][NextAppendIO]_vars

(* ------------------------------ claims --------------------------------- *)

Range(seq) == {seq[i] : i \in DOMAIN seq}

\* The instant the persisted cursor stands at, None when there is none.
CursorDt == LastDt(_read_state)

\* A thread is inside a pass: it holds the lock between the read of the
\* history and the return.
InPass(t) == pc[t] \in {"upload", "save"}

\* A thread has left the candidate loop and is about to return uploaded.
AtReturn(t) == pc[t] = "upload" /\ idx[t] > Len(candidates[t])

\* The documents the pass of thread t has added so far, in order.
PassUploads(t) == SubSeq(remote, Len(remote) - uploaded[t] + 1, Len(remote))

\* The events of the history the pass read that have an identity greater
\* than the cursor the pass loaded.
NewEvents(t) ==
    {ev \in Range(history[t]) :
        HasDt(ev) /\ (last_dt[t] = None \/ EvDt(ev) > Val(last_dt[t]))}

\* C1: every event the detection flow appends to the history (an event of
\* EventLogger.update or finalize written by log_event) is eventually in the
\* remote collection, when the connector has a client, the passes go on and
\* uploads succeed in the end.
C1_EveryLoggedEventUploaded ==
    \A i \in 1 .. MaxLog :
        (USE_EVENT_LOGGER /\ client = "Firestore" /\ Len(logFile) >= i)
            ~> (Len(logFile) >= i /\ logFile[i] \in Range(remote))

\* What a pass in which no upload failed has done when it returns: it added
\* exactly the new events, in ascending order of identity, and counted them.
UploadedNewEventsInOrder(t) ==
    /\ Range(PassUploads(t)) = NewEvents(t)
    /\ \A i, j \in DOMAIN PassUploads(t) :
           i < j => EvDt(PassUploads(t)[i]) < EvDt(PassUploads(t)[j])
    /\ uploaded[t] = Cardinality(NewEvents(t))

\* The cursor stands at the identity of the last event the pass uploaded
\* (where the pass found it, when it uploaded none).
CursorAtLastUpload(t) ==
    IF uploaded[t] = 0 THEN TRUE
    ELSE CursorDt = Some(EvDt(PassUploads(t)[uploaded[t]]))

C3_PassStopsAtFailure ==
    \A t \in Threads :
        \A i, j \in DOMAIN results[t] :
            (i < j /\ results[t][i] = "failed") => results[t][j] = "failed"

\* C4: every event of the history whose identity is at or before the
\* persisted cursor has been uploaded.
C4_CursorBehindUnconfirmed ==
    \A i \in DOMAIN logFile :
        (HasDt(logFile[i]) /\ CursorDt # None /\ EvDt(logFile[i]) <= Val(CursorDt))
            => logFile[i] \in Range(remote)

C7_OnePassAtATime == Cardinality({t \in Threads : InPass(t)}) <= 1

\* C7's case: the periodic worker and an event-triggered thread have both
\* called sync_new_events, one is inside its pass and the other at the lock.
C7_Witness ==
    \E t, u \in Threads :
        /\ (t = 0) # (u = 0)
        /\ InPass(t)
        /\ pc[u] = "wait"

\* The event-triggered threads that wait for the running pass to end.
BlockedTriggers ==
    {t \in Threads \ {0} : pc[t] = "wait" /\ ~ENABLED BeginSync(t)}

\* C8: a trigger that arrives during a pass is dropped or deferred, so at
\* most one trigger waits for the running pass, however many are issued.
C8_TriggersNotQueued == Cardinality(BlockedTriggers) <= 1

\* An event update returned (finalize marks its events finalized_forced).
FromUpdate(ev) ==
    ev # None /\ "finalized_forced" \notin DOMAIN Val(ev)

\* C9: a run of is_falling shorter than MIN_FALL_DURATION_SEC gives no
\* event: every event update returns lasts at least that long.
C9_NoShortEvent ==
    FromUpdate(completed_event)
        => Val(completed_event).duration_seconds >= MIN_FALL_DURATION_SEC

\* The time between the end of the event before and the start of this one.
GapBefore(ev, prev) ==
    Val(_parse_iso(Val(ev).start_time)) - Val(_parse_iso(Val(prev).end_time))

\* An event update returned for a run no shorter than the minimum duration.
LongEnough(ev) ==
    FromUpdate(ev) /\ Val(ev).duration_seconds >= MIN_FALL_DURATION_SEC

\* C10: two runs of is_falling less than EVENT_DEDUP_WINDOW_SEC apart give
\* one event, so two events update returns one after the other (each for a
\* run that is long enough to count) are at least that far apart.
C10_NoEventsWithinWindow ==
    (LongEnough(completed_event) /\ LongEnough(previous_event))
        => GapBefore(completed_event, previous_event) >= EVENT_DEDUP_WINDOW_SEC

\* The runs of is_falling with every two runs less than
\* EVENT_DEDUP_WINDOW_SEC apart made one, in order.
RECURSIVE MergedRuns(_)
MergedRuns(rs) ==
    IF Len(rs) <= 1 THEN rs
    ELSE LET m == MergedRuns(SubSeq(rs, 1, Len(rs) - 1))
             r == rs[Len(rs)]
             l == m[Len(m)]
         IN  IF r.start - l.end < EVENT_DEDUP_WINDOW_SEC
             THEN [m EXCEPT ![Len(m)] = [start |-> l.start, end |-> r.end]]
             ELSE Append(m, r)

\* A run lasts at least the minimum duration.
LongRun(r) == r.end - r.start >= MIN_FALL_DURATION_SEC

\* The number of events the signals call for: the merged runs that are long
\* enough.
ExpectedEvents(rs) ==
    Cardinality({i \in DOMAIN MergedRuns(rs) : LongRun(MergedRuns(rs)[i])})

\* C11: after a sequence of timed signals that ends with a false one, the
\* number of events update has returned is the number of runs of true
\* signals that last at least MIN_FALL_DURATION_SEC, runs less than
\* EVENT_DEDUP_WINDOW_SEC apart counting as one.
C11_EventCountMatchesRuns ==
    run_start = None => emitted = ExpectedEvents(runs)

\* The interval an event spans.
EventInterval(ev) ==
    [start |-> Val(_parse_iso(Val(ev).start_time)),
     end   |-> Val(_parse_iso(Val(ev).end_time))]

\* The last two runs have just ended, both are long enough and they are
\* more than the window apart.
TwoRunsApart ==
    /\ completed_event # None
    /\ Len(runs) >= 2
    /\ LongRun(runs[Len(runs) - 1])
    /\ LongRun(runs[Len(runs)])
    /\ runs[Len(runs)].start - runs[Len(runs) - 1].end > EVENT_DEDUP_WINDOW_SEC

\* C12: two runs of true signals, each at least MIN_FALL_DURATION_SEC long
\* and more than EVENT_DEDUP_WINDOW_SEC apart, give two distinct events, one
\* returned for each run and spanning exactly that run.
C12_TwoRunsTwoEvents ==
    TwoRunsApart =>
        /\ previous_event # None
        /\ completed_event # previous_event
        /\ EventInterval(previous_event) = runs[Len(runs) - 1]
        /\ EventInterval(completed_event) = runs[Len(runs)]
        /\ Val(completed_event).duration_seconds
               = runs[Len(runs)].end - runs[Len(runs)].start
        /\ emitted = Len(runs)

\* C12's case: the second of two such runs has just ended.
C12_Witness == TwoRunsApart /\ emitted >= 2

\* C13: finalize returns an event exactly when the machine is FALLING and
\* always leaves it NORMAL with no start pending, so a second finalize
\* with no true signal in between returns nothing.
C13_FinalizeOnceThenNothing ==
    [][Finalize =>
          /\ (completed_event' # None) <=> (state = "FALLING")
          /\ completed_event' # None
                 => "finalized_forced" \in DOMAIN Val(completed_event')
          /\ state' = "NORMAL"
          /\ fall_start_time' = None]_vars

\* C13's case: finalize has returned the event of a fall in progress and
\* left the machine NORMAL.
C13_Witness ==
    /\ completed_event # None
    /\ "finalized_forced" \in DOMAIN Val(completed_event)
    /\ Val(completed_event).duration_seconds > 0
    /\ state = "NORMAL"

\* C14: a read of the history that runs while an append is in progress
\* returns the complete sequence of the events appended so far (the file
\* before the rename of the append in progress, or after it), finds a JSON
\* list or no file, and moves nothing aside.
C14_ReaderSeesWholeHistory ==
    [][(\E reader \in Readers : ReadHistory(reader)) =>
          /\ Val(lastRead').history = appended
          /\ Val(lastRead').kind \in {"absent", "list"}
          /\ Val(lastRead').backup = "none"
          /\ quarantine' = {}]_vars

\* C14's case: the connector has read the history while log_event had its
\* temporary file written and not yet renamed, after an earlier append.
C14_Witness ==
    /\ lastRead # None
    /\ Val(lastRead).reader = "FirebaseConnector"
    /\ Val(lastRead).during = {1}
    /\ Val(lastRead).history # <<>>
    /\ log_pc[1] = "replace"
    /\ Val(tmpFile[1]) # Val(lastRead).history

\* C15: when a step of an append has failed (the read of the existing
\* history, the write of the temporary file, or the rename), log_event has
\* returned False and the file holds what it held before the call.
C15_FailedAppendLeavesLog ==
    \A a \in Appenders :
        (log_pc[a] = "idle" /\ failed[a])
            => /\ log_ret[a] = Some(FALSE)
               /\ <<logKind, logFile>> = Val(before[a])

\* C16: after any sequence of appends to a log absent at first, some of
\* them failing in the write, a read of the file returns exactly the events
\* of the calls that returned True, in the order of the calls.
C16_RoundTrip ==
    (\A a \in Appenders : log_pc[a] = "idle") => _read_history = appended

\* C16's case: three calls, the second failed, and a fresh EventLogger
\* has read the history after the third.
C16_Witness ==
    /\ \A a \in Appenders : log_pc[a] = "idle"
    /\ appended = <<CallEvent(instance[1], 1), CallEvent(instance[1], 3)>>
    /\ lastRead # None
    /\ Val(lastRead).reader = "EventLogger"
    /\ Val(lastRead).history = appended

\* C17: a read of a file that is no JSON list, by any reader, returns []
\* and moves the file to one quarantine file, leaving none at the path
\* (the move itself not failing).
C17_CorruptFileQuarantined ==
    [][\A reader \in Readers :
          (/\ ReadHistory(reader)
           /\ logKind \in CorruptKinds
           /\ Val(lastRead').backup # "failed")
              => /\ Val(lastRead').history = <<>>
                 /\ logKind' = "absent"
                 /\ Cardinality(quarantine') = Cardinality(quarantine) + 1]_vars

\* C18: every event of a log_event call that returned True is in the
\* history, whichever logger instances the threads append through.
C18_NoLostAppend ==
    (\A a \in Appenders : log_pc[a] = "idle")
        => \A i \in DOMAIN appended : appended[i] \in Range(_read_history)

\* The start of the fall an event reports.
EventStart(ev) ==
    [start_time  |-> ev.start_time,
     start_frame |-> ev.start_frame,
     metadata    |-> ev.metadata]

\* C19: update and finalize called from several threads on one EventLogger
\* run one at a time from the test of the state to the return; every event
\* built takes its start time, start frame and metadata from one
\* NORMAL -> FALLING transition; and between calls the machine is NORMAL
\* with no start time, or FALLING with the start of one transition.
C19_CallsAreAtomic ==
    /\ Cardinality({a \in Appenders :
                       call_pc[a] \notin {"idle", "lock"}}) <= 1
    /\ \A ev \in {call_event[a] : a \in Appenders}
                    \cup {completed_event} :
           ev # None => EventStart(Val(ev)) \in transitions
    /\ (\A a \in Appenders : call_pc[a] \in {"idle", "lock"})
           => IF state = "NORMAL" THEN fall_start_time = None
              ELSE /\ fall_start_time # None
                   /\ [start_time  |-> IsoFormat(Val(fall_start_time)),
                       start_frame |-> fall_start_frame,
                       metadata    |-> fall_metadata] \in transitions

\* C19's case: a thread is inside update with the event of the fall built
\* and the state not yet reset, while the other thread has called finalize
\* and waits at the lock.
C19_Witness ==
    /\ call_pc[1] = "reset"
    /\ call_event[1] # None
    /\ state = "FALLING"
    /\ call_pc[2] = "lock"
    /\ Val(call_op[2]).op = "finalize"

\* The number of times an event stands in the history file.
TimesLogged(ev) == Cardinality({i \in DOMAIN logFile : logFile[i] = ev})

\* C20: when main has been left, every event update or finalize returned
\* to it is in the history file exactly once.
C20_ReturnedEventsLogged ==
    main_pc = "exited"
        => \A ev \in {completed_event, previous_event} :
               ev # None => logKind = "list" /\ TimesLogged(Val(ev)) = 1

\* An event is closed: it has a start and an end that parse, the end is
\* not before the start, and its duration is the end minus the start.
Closed(e) ==
    /\ {"start_time", "end_time", "duration_seconds"} \subseteq DOMAIN e
    /\ _parse_iso(e.start_time) # None
    /\ _parse_iso(e.end_time) # None
    /\ Val(_parse_iso(e.end_time)) >= Val(_parse_iso(e.start_time))
    /\ e.duration_seconds
           = Val(_parse_iso(e.end_time)) - Val(_parse_iso(e.start_time))

Identity(ev) == <<ev.start_time, ev.start_frame>>

Unreflected(t) ==
    {i \in DOMAIN PassUploads(t) :
        CursorDt = None \/ EvDt(PassUploads(t)[i]) > Val(CursorDt)}

\* No write of the cursor file has failed in the pass of thread t: an
\* event uploaded and not saved is the one the pass is about to save.
NoFailedSave(t) ==
    \A i \in DOMAIN results[t] :
        results[t][i] = "uploaded" => (pc[t] = "save" /\ i = idx[t])

C24_CursorWrittenOnlyAfterUpload ==
    [][stateFile' # stateFile =>
          \E t \in Threads :
              /\ pc[t] = "save"
              /\ results[t][idx[t]] = "uploaded"
              /\ remote[Len(remote)] = candidates[t][idx[t]].ev
              /\ LastDt(stateFile') = Some(EvDt(remote[Len(remote)]))]_vars

\* C24's case: the cursor has been written with the identity of the second
\* event of the history, whose upload followed a failed one, after a
\* reader has read the history.
C24_Witness ==
    /\ stateFile # None
    /\ Len(logFile) = 2
    /\ CursorDt = Some(EvDt(logFile[2]))
    /\ results[0] = <<"failed", "saved">>
    /\ lastRead # None

\* What a step of finalize that returns an event returns: an event marked
\* finalized_forced = True, with no end frame.
FinalizeReturnsForced ==
    (FinalizeCall /\ completed_event' # None)
        => /\ Get(Val(completed_event'), "finalized_forced") = Some(TRUE)
           /\ Val(completed_event').end_frame = None

C26_MatchingSignalChangesNothing ==
    [][\A is_falling \in BOOLEAN :
           \A metadata \in MetadataArgs(frame_idx + 1) :
               (/\ is_falling <=> (state = "FALLING")
                /\ Update(is_falling, frame_idx + 1, None, metadata))
                   => /\ completed_event' = None
                      /\ UNCHANGED <<state, fall_start_time, fall_start_frame,
                                     fall_photo_path, fall_metadata>>]_vars

\* C26's case: a fall began at frame 1, two more true signals came at later
\* instants, and the recorded start is still that of frame 1.
C26_Witness ==
    /\ state = "FALLING"
    /\ frame_idx = 3
    /\ run_start = Some(0)
    /\ fall_start_frame = Some(1)
    /\ fall_start_time = Some(0)
    /\ now >= 8
    /\ completed_event = None

\* C27: a call of update returns an event exactly when it receives
\* is_falling = False in state FALLING, and that call leaves the state
\* NORMAL; every other call returns None.
C27_EventOnlyOnFallEnd ==
    [][\A is_falling \in BOOLEAN :
           \A metadata \in MetadataArgs(frame_idx + 1) :
               Update(is_falling, frame_idx + 1, None, metadata)
                   => /\ (completed_event' # None)
                             <=> (~is_falling /\ state = "FALLING")
                      /\ completed_event' # None => state' = "NORMAL"]_vars

\* C27's case: update has returned the events of two falls, the calls in
\* between returning None.
C27_Witness ==
    /\ FromUpdate(completed_event)
    /\ FromUpdate(previous_event)
    /\ frame_idx = 4
    /\ state = "NORMAL"
    /\ Val(completed_event).start_frame = Some(3)

\* The waits after the failed attempts 1 .. n of one call of _upload_event.
BackoffWaits(n) == [k \in 1 .. n |-> retry_backoff * k]

\* C28: with a client, one call of _upload_event makes at most max_retries
\* attempts and stops at the first one that succeeds; the wait after the
\* failed attempt number n is retry_backoff * n; the call reports a failure
\* only when attempt number max_retries has failed.
C28_RetriesBoundedWithBackoff ==
    [][\A t \in Threads :
          (client = "Firestore" /\ pc[t] = "upload") =>
              /\ attempt[t] \in 1 .. max_retries
              \* another attempt follows a failed one
              /\ attempt'[t] = attempt[t] + 1 =>
                     /\ attempt[t] < max_retries
                     /\ slept'[t] = BackoffWaits(attempt[t])
                     /\ idx'[t] = idx[t]
                     /\ results'[t] = results[t]
              \* the call returns False
              /\ Len(results'[t]) = Len(results[t]) + 1
                     /\ results'[t][Len(results'[t])] = "failed" =>
                     /\ attempt[t] = max_retries
                     /\ slept'[t] = BackoffWaits(max_retries)
                     /\ remote' = remote
              \* the call returns True
              /\ pc'[t] = "save" =>
                     /\ slept'[t] = BackoffWaits(attempt[t] - 1)
                     /\ Len(remote') = Len(remote) + 1
                     /\ attempt'[t] = 1
      ]_vars

\* C28: an event was reported failed after max_retries failed attempts and
\* the next one was uploaded at its second attempt.
C28_Witness ==
    /\ client = "Firestore"
    /\ pc[0] = "save"
    /\ results[0] = <<"failed", "uploaded">>
    /\ slept[0] = <<retry_backoff>>

\* C29: with no client (client is None) sync_new_events does nothing,
\* whatever the log file holds: no step of a pass makes an upload attempt,
\* adds a document, counts an upload, writes the cursor or touches the log
\* file.
C29_NoClientSyncIsNoOp ==
    [][client = "None" =>
          /\ remote' = remote
          /\ \A t \in Threads : attempt'[t] = 1 /\ slept'[t] = <<>>
          /\ \A t \in Threads : uploaded'[t] = 0
          /\ stateFile' = stateFile
          /\ logFile' = logFile
          /\ logKind' = logKind
          /\ quarantine' = quarantine
      ]_vars

\* The machine is FALLING exactly when a start time is recorded.
Consistent == (state = "FALLING") <=> (fall_start_time # None)

\* C30: the machine is FALLING if and only if a start time is recorded:
\* __init__ leaves it so and no call of update or finalize made in such a
\* state leaves it otherwise, so FALLING with no start time is not reached
\* through update and finalize; a call of finalize made in that state
\* resets the machine to NORMAL and returns nothing.
C30_FallingIffStartRecorded ==
    /\ [][Consistent => Consistent']_vars
    /\ [](state = "FALLING" /\ fall_start_time = None =>
             ~ENABLED (FinalizeCall
                          /\ ~(state' = "NORMAL" /\ completed_event' = None)))

\* C30: finalize was called on a machine that was FALLING with no start
\* time, before any update: the machine is NORMAL and nothing was returned.
C30_Witness ==
    /\ state = "NORMAL"
    /\ fall_start_time = None
    /\ fall_start_frame = Some(0)
    /\ frame_idx = 0
    /\ completed_event = None
    /\ previous_event = None

\* The transition that opened the fall in progress: the one made by the
\* latest frame of the single producer.
LastTransition ==
    CHOOSE tr \in transitions :
        \A o \in transitions : Val(o.start_frame) <= Val(tr.start_frame)

\* C31: an event returned by update or finalize carries the start time, the
\* start frame and the metadata of the NORMAL -> FALLING signal that opened
\* the fall it closes (the map supplied with it, {} when none was), and
\* nothing of an earlier fall.
C31_EventCarriesOpeningSignal ==
    [][(state = "FALLING" /\ state' = "NORMAL" /\ completed_event' # None) =>
          EventStart(Val(completed_event')) = LastTransition
      ]_vars

\* C31: a second fall, opened with other metadata at a later frame, has
\* been closed: the event before it carries the first signal's fields.
C31_Witness ==
    /\ completed_event # None
    /\ previous_event # None
    /\ Val(previous_event).start_frame = Some(1)
    /\ Val(previous_event).metadata = Some({<<"frame_idx", 1>>})
    /\ Val(completed_event).start_frame = Some(3)
    /\ Val(completed_event).metadata = Some({})
    /\ "finalized_forced" \in DOMAIN Val(completed_event)

\* C32: while a completed event is being handed to the sinks, whether each
\* of them returns or raises, an event that log_event stored is in the log
\* and no step changes the log file.
C32_SinkOutcomesKeepStoredEvent ==
    /\ [](main_pc = "sinks" /\ sinks.stored =>
             logKind = "list" /\ Val(completed_event) \in Range(logFile))
    /\ [][main_pc = "sinks" => (logFile' = logFile /\ logKind' = logKind)]_vars

\* C32: the event was stored after an older entry, the inline sync
\* uploaded nothing though the connector has a client (every attempt
\* failed), and the speaker, MQTT, TCP and the serial port all raised: the
\* event is in the log.
C32_Witness ==
    /\ main_pc = "sinks"
    /\ sinks.stored
    /\ sinks.pending = <<>>
    /\ sinks.errors = {"speaker", "mqtt", "tcp", "serial"}
    /\ client = "Firestore"
    /\ Len(logFile) = 2
    /\ remote = <<>>
    /\ Val(completed_event) \in Range(logFile)

\* The producer is inside its own call of sync_new_events: it makes no call
\* of update or log_event until the call returns.
ProducerWaitsForSync ==
    /\ main_pc = "sinks"
    /\ sinks.pending # <<>>
    /\ Head(sinks.pending) = "syncing"

\* C33: while a sync pass is in progress (the connector lock held, uploads
\* failing, retries sleeping) the producer is not waiting for it: it can go
\* on to its next update and append.
C33_ProducerNeverWaitsForPass ==
    \A t \in Threads : InPass(t) => ~ProducerWaitsForSync

\* stop_event.clear() in main's finally block has been executed: main came
\* to it unless connector.log_event(final_event), two statements before
\* it, raised.
stop_event_cleared ==
    /\ main_pc = "exited"
    /\ ~(completed_event # None /\ RaisesAttributeError("log_event"))

\* C34: on every path out of the main loop, with or without a fall in
\* progress, main gives the periodic worker its stop signal.
C34_StopSignalOnEveryExit == main_pc = "exited" => stop_event_cleared

\* C35: when a call of log_event that found a file that is no JSON list has
\* replaced it with the new history, the old file is kept at a quarantine
\* path.
C35_UnreadableFilePreserved ==
    \A a \in Appenders :
        (/\ log_pc[a] = "idle"
         /\ log_ret[a] = Some(TRUE)
         /\ before[a] # None
         /\ Val(before[a])[1] \in CorruptKinds)
            => quarantine # {}

\* C36: with frame indices that never decrease, an event returned by update
\* has end_frame >= start_frame and total_frames = end_frame - start_frame
\* + 1 >= 1, also when the fall is closed at the frame index that opened it.
C36_FrameCountsPositive ==
    \A ev \in {completed_event, previous_event} :
        (ev # None /\ "finalized_forced" \notin DOMAIN Val(ev)) =>
            LET e == Val(ev) IN
                /\ Val(e.end_frame) >= Val(e.start_frame)
                /\ Val(e.total_frames)
                       = Val(e.end_frame) - Val(e.start_frame) + 1
                /\ Val(e.total_frames) >= 1

\* C37: the quarantine of the sync reader moves only the unreadable file
\* it read: whenever no append is in progress, every event of a log_event
\* call that returned True is in the file at the log path.
C37_QuarantineKeepsAppendedEvents ==
    log_pc[1] = "idle"
        => \A i \in DOMAIN appended :
               logKind = "list" /\ appended[i] \in Range(logFile)

\* s is the beginning of q.
IsPrefix(s, q) == Len(s) <= Len(q) /\ SubSeq(q, 1, Len(s)) = s

\* C38: a sync pass over a log that is a JSON list does not change it: no
\* step of a pass, whether an attempt fails or succeeds or the cursor is
\* written, touches the log file, and all along the pass the file holds the
\* history the pass read, followed by what the producer has appended since.
C38_PassLeavesLogUnchanged ==
    /\ [](\A t \in Threads :
             InPass(t) => logKind = "list" /\ IsPrefix(history[t], logFile))
    /\ [][(logKind = "list"
              /\ (passVars' # passVars \/ _lock' # _lock
                     \/ remote' # remote \/ stateFile' # stateFile)) =>
             (logFile' = logFile /\ logKind' = logKind
                 /\ quarantine' = quarantine)]_vars

\* C38: the pass read a history of one entry, its first attempt failed, the
\* producer appended a second entry meanwhile, and the second attempt
\* succeeded and the cursor was written: the pass is about to return.
C38_Witness ==
    /\ AtReturn(0)
    /\ Len(history[0]) = 1
    /\ results[0] = <<"saved">>
    /\ slept[0] = <<retry_backoff>>
    /\ Len(logFile) = 2
    /\ IsPrefix(history[0], logFile)

====
